---- MODULE Spec2Model ----
(***************************************************************************)
(* Portfolio tracker backend: the transaction ledger with its cached       *)
(* account balances (routers/transactions.py, main.py), the ledger replay  *)
(* and valuation (services/portfolio.py), the price cache gateway          *)
(* (services/market_data.py) and the snapshot store with its three         *)
(* writers (record_daily_snapshot, backfill_history /                      *)
(* rebuild_snapshots_from, rebuild_portfolio_history).                     *)
(*                                                                         *)
(* Python floats are modelled as exact rationals <<n, d>> (d > 0, lowest   *)
(* terms); SpecConversion, which is about the rounding of float            *)
(* arithmetic, rounds every operation to a binary float.  A datetime       *)
(* is <<day, tod>>: day is a day number and tod one of                     *)
(* three instants of the day, 0 = 00:00:00, 1 = a time after midnight up   *)
(* to 23:59:59 and 2 = the last second of the day, after the 23:59:59 that *)
(* the code uses as end of day.                                            *)
(* A Python date bound to a DateTime column is midnight of that day.       *)
(*                                                                         *)
(* Val({e : x \in {v}}) is "LET x == v IN e" with v evaluated once.        *)
(***************************************************************************)
EXTENDS Integers, Sequences, FiniteSets, TLC

----------------------------------------------------------------------------
(* Bounds of the model *)
MaxDay == 2
MaxTx == 2
MaxAccounts == 1
MaxReplayLen == 3
MaxSteps == 5
(* the number of operations served in SpecWriters and in SpecTrades *)
MaxWriterSteps == 2
(* the bits of mantissa of the binary floats of SpecConversion, and the largest
   amount converted there *)
FloatBits == 10
MaxAmount == 40
(* the number of snapshot rebuilds that run side by side in SpecRuns *)
MaxRuns == 2

Days == 0..MaxDay

Val(S) == CHOOSE r \in S : TRUE

----------------------------------------------------------------------------
(* Exact rational arithmetic standing for float arithmetic *)
Abs(x) == IF x < 0 THEN -x ELSE x

RECURSIVE GCD(_, _)
GCD(a, b) == IF b = 0 THEN a ELSE GCD(b, a % b)

Rat(n, d) == Val({<<n \div g, d \div g>> : g \in {GCD(Abs(n), d)}})
Num(n) == <<n, 1>>
Zero == <<0, 1>>
RAdd(a, b) == Rat(a[1] * b[2] + b[1] * a[2], a[2] * b[2])
RSub(a, b) == Rat(a[1] * b[2] - b[1] * a[2], a[2] * b[2])
RMul(a, b) == Rat(a[1] * b[1], a[2] * b[2])
RDiv(a, b) == IF b[1] > 0 THEN Rat(a[1] * b[2], a[2] * b[1])
              ELSE Rat(-(a[1] * b[2]), -(a[2] * b[1]))
RNeg(a) == <<-a[1], a[2]>>
RLt(a, b) == a[1] * b[2] < b[1] * a[2]
RLe(a, b) == a[1] * b[2] <= b[1] * a[2]

(* round(x, 2): nearest hundredth, ties to the even hundredth *)
Round2(r) ==
  LET m == r[1] * 100
      q == m \div r[2]
      rem == m % r[2]
      up == \/ 2 * rem > r[2]
            \/ 2 * rem = r[2] /\ q % 2 = 1
  IN Rat(IF up THEN q + 1 ELSE q, 100)

----------------------------------------------------------------------------
(* models.py *)
TransactionType == {"BUY", "SELL", "DEPOSIT", "WITHDRAW", "INTEREST", "DIVIDEND", "FEE"}

(* None for an optional id, string or currency *)
NoId == 0
NoStr == ""

(* datetimes *)
DtLe(a, b) == a[1] < b[1] \/ (a[1] = b[1] /\ a[2] <= b[2])
DtLt(a, b) == a[1] < b[1] \/ (a[1] = b[1] /\ a[2] < b[2])
DayOf(dt) == dt[1]
Midnight(d) == <<d, 0>>
(* a cutoff at the midnight that ends the day *)
EndOfDay_NextMidnight(d) == <<d, 2>>

(* datetime(y, m, d, 23, 59, 59) *)
EndOfDay(d) == <<d, 1>>

VARIABLES
  today,      \* the calendar day of datetime.utcnow()
  accounts,   \* Account table: id -> [currency, balance, inception_date]
  assets,     \* Asset table: asset id i is assets[i] = [symbol, currency]
  txs,        \* Transaction table in insertion order
  prices,     \* PriceHistory table in insertion order: [asset_id, day, price]
  snapshots,  \* PortfolioSnapshot table in insertion order
  last,       \* the last operation, its arguments and its outcome
  replay,     \* the loop of calculate_holdings, one iteration at a time
  steps,      \* the number of operations served so far
  runs        \* the rebuild runs in progress, each in a session of its own

vars ==
  <<today, accounts, assets, txs, prices, snapshots, last, replay, steps, runs>>

----------------------------------------------------------------------------
(* Currency normalisation *)

(* routers/transactions.py EXCHANGE_RATES.get(c, 1.0) *)
TxRate(c) ==
  CASE c = "USD" -> <<1, 1>>
    [] c = "HKD" -> <<39, 5>>
    [] c = "MOP" -> <<803, 100>>
    [] OTHER -> <<1, 1>>

(* services/portfolio.py EXCHANGE_RATES.get(c, 1.0) *)
PfRate(c) ==
  CASE c = "USD" -> <<1, 1>>
    [] c = "HKD" -> <<39, 5>>
    [] c = "MOP" -> <<803, 100>>
    [] c = "CNY" -> <<36, 5>>
    [] OTHER -> <<1, 1>>

_convert_currency(amount, from_curr, to_curr) ==
  IF from_curr = to_curr THEN amount
  ELSE RMul(RDiv(amount, TxRate(from_curr)), TxRate(to_curr))

(* Binary floating point: the result of every float operation is the exact
   result rounded to the nearest float, ties to the even mantissa.  A float
   here has FloatBits bits of mantissa and an unbounded exponent. *)
RECURSIVE Pow2(_)
Pow2(k) == IF k = 0 THEN 1 ELSE 2 * Pow2(k - 1)

(* q / 2^e *)
Scaled(q, e) ==
  IF e >= 0 THEN Rat(q[1], q[2] * Pow2(e)) ELSE Rat(q[1] * Pow2(-e), q[2])

(* the exponent e with 2^(FloatBits-1) <= q / 2^e < 2^FloatBits, for q > 0 *)
RECURSIVE FloatExponent(_, _)
FloatExponent(q, e) ==
  Val({IF RLt(m, Num(Pow2(FloatBits - 1))) THEN FloatExponent(q, e - 1)
       ELSE IF RLe(Num(Pow2(FloatBits)), m) THEN FloatExponent(q, e + 1)
       ELSE e
       : m \in {Scaled(q, e)}})

(* the nearest integer of r >= 0, ties to even *)
RoundHalfEven(r) ==
  LET q == r[1] \div r[2]
      rem == r[1] % r[2]
      up == \/ 2 * rem > r[2]
            \/ 2 * rem = r[2] /\ q % 2 = 1
  IN IF up THEN q + 1 ELSE q

(* the float nearest to the rational q *)
Fl(q) ==
  IF q[1] = 0 THEN Zero
  ELSE Val({IF q[1] < 0 THEN RNeg(Scaled(Num(RoundHalfEven(Scaled(<<Abs(q[1]), q[2]>>, e))), -e))
            ELSE Scaled(Num(RoundHalfEven(Scaled(q, e))), -e)
            : e \in {FloatExponent(<<Abs(q[1]), q[2]>>, 0)}})

(* the float literals of EXCHANGE_RATES *)
FloatRate(c) == Fl(TxRate(c))

(* a conversion that multiplies by the target rate without dividing by the
   source rate *)
_convert_currency_float_NoBase(amount, from_curr, to_curr) ==
  IF from_curr = to_curr THEN amount
  ELSE Fl(RMul(amount, FloatRate(to_curr)))

(* _convert_currency in float arithmetic: the division and the
   multiplication each round *)
_convert_currency_float(amount, from_curr, to_curr) ==
  IF from_curr = to_curr THEN amount
  ELSE Fl(RMul(Fl(RDiv(amount, FloatRate(from_curr))), FloatRate(to_curr)))

(* a conversion to USD that leaves the amount in its own currency *)
_convert_to_usd_Unconverted(amount, currency) == amount

_convert_to_usd(amount, currency) == RDiv(amount, PfRate(currency))

(* _detect_currency_from_symbol: suffix table, USD otherwise *)
_detect_currency_from_symbol(symbol) ==
  CASE symbol = "0700.HK" -> "HKD"
    [] symbol = "600519.SS" -> "CNY"
    [] OTHER -> "USD"

----------------------------------------------------------------------------
(* Sums *)
RECURSIVE SumSeq(_)
SumSeq(s) ==
  Val({IF Len(v) = 0 THEN Zero ELSE RAdd(v[1], SumSeq(Tail(v))) : v \in {s}})

RECURSIVE SumFn(_, _)
SumFn(f, S) ==
  Val({IF T = {} THEN Zero
       ELSE Val({RAdd(g[x], SumFn(g, T \ {x})) : x \in {CHOOSE y \in T : TRUE}})
       : g \in {f}, T \in {S}})

MaxOf(S) == CHOOSE x \in S : \A y \in S : y <= x
MinOf(S) == CHOOSE x \in S : \A y \in S : x <= y

----------------------------------------------------------------------------
(* Ledger replay *)

(* ORDER BY Transaction.date: ascending, rows of equal date in table order *)
InsertByDate(s, x) ==
  Val({LET k == Cardinality({i \in 1..Len(v) : DtLe(v[i].date, x.date)})
       IN SubSeq(v, 1, k) \o <<x>> \o SubSeq(v, k + 1, Len(v)) : v \in {s}})

RECURSIVE OrderByDate(_)
OrderByDate(s) ==
  Val({IF Len(v) = 0 THEN <<>>
       ELSE InsertByDate(OrderByDate(SubSeq(v, 1, Len(v) - 1)), v[Len(v)])
       : v \in {s}})

(* a SELL that takes its proceeds, not its share of the cost, off the cost *)
HoldingEffect_SellByProceeds(h, tx) ==
  IF tx.type = "BUY"
    THEN [quantity |-> RAdd(h.quantity, tx.quantity),
          total_cost |-> RAdd(h.total_cost, tx.total)]
  ELSE IF tx.type = "SELL"
    THEN [quantity |-> RSub(h.quantity, tx.quantity),
          total_cost |-> RSub(h.total_cost, tx.total)]
  ELSE h

(* calculate_holdings, the body of the loop for one transaction on the
   position h = [quantity, total_cost] of its (account, asset) pair *)
HoldingEffect(h, tx) ==
  IF tx.type = "BUY"
    THEN [quantity |-> RAdd(h.quantity, tx.quantity),
          total_cost |-> RAdd(h.total_cost, tx.total)]
  ELSE IF tx.type = "SELL"
    THEN [quantity |-> RSub(h.quantity, tx.quantity),
          total_cost |-> IF RLt(Zero, h.quantity)
                           THEN RSub(h.total_cost,
                                     RMul(RDiv(h.total_cost, h.quantity), tx.quantity))
                           ELSE h.total_cost]
  ELSE h

NewHolding == [quantity |-> Zero, total_cost |-> Zero]

(* the transactions calculate_holdings selects, in replay order;
   at is a day, or NoDate for the live (undated) view *)
NoDate == -1
HoldingTxs(at) ==
  OrderByDate(SelectSeq(txs, LAMBDA t :
      /\ t.type \in {"BUY", "SELL"}
      /\ t.asset_id # NoId
      /\ (at # NoDate => DtLe(t.date, EndOfDay(at)))))

KeyIndex(pos, aid, sid) ==
  LET S == {i \in 1..Len(pos) : pos[i].account_id = aid /\ pos[i].asset_id = sid}
  IN IF S = {} THEN 0 ELSE MinOf(S)

(* one iteration of the loop of calculate_holdings on the holdings dict,
   kept as the sequence of its entries in insertion order *)
HoldingsStep(holdings, t) ==
  Val({LET i == KeyIndex(prev, tx.account_id, tx.asset_id)
           cur == IF i = 0 THEN NewHolding
                  ELSE [quantity |-> prev[i].quantity, total_cost |-> prev[i].total_cost]
       IN Val({IF i = 0 THEN Append(prev, row) ELSE [prev EXCEPT ![i] = row]
               : row \in {[account_id |-> tx.account_id, asset_id |-> tx.asset_id,
                           quantity |-> nxt.quantity, total_cost |-> nxt.total_cost]
                          : nxt \in {HoldingEffect(cur, tx)}}})
       : prev \in {holdings}, tx \in {t}})

(* the holdings dict after the first k selected transactions *)
RECURSIVE HoldingsAfter(_, _)
HoldingsAfter(ts, k) ==
  IF k = 0 THEN <<>> ELSE HoldingsStep(HoldingsAfter(ts, k - 1), ts[k])

(* a price lookup without the date filter *)
PriceRowsUpTo_AnyDay(sid, d) ==
  {i \in 1..Len(prices) : prices[i].asset_id = sid}

(* PriceHistory rows of an asset dated on or before the end of day d *)
PriceRowsUpTo(sid, d) ==
  {i \in 1..Len(prices) : prices[i].asset_id = sid /\ prices[i].day <= d}
(* ORDER BY PriceHistory.date DESC, first row *)
LatestPriceRow(S) == CHOOSE i \in S : \A j \in S : prices[j].day <= prices[i].day
AnyPriceRows(sid) == {i \in 1..Len(prices) : prices[i].asset_id = sid}

(* a valuation that has no fallback to the average cost *)
HoldingPrice_NoFallback(sid, at, avg_cost, live) ==
  Val({IF S # {} THEN prices[LatestPriceRow(S)].price ELSE Zero
       : S \in {IF at # NoDate THEN PriceRowsUpTo(sid, at) ELSE AnyPriceRows(sid)}})

(* the price calculate_holdings values a position at; live maps a symbol to
   what get_asset_price returns for it (0 on failure) *)
HoldingPrice(sid, at, avg_cost, live) ==
  IF at # NoDate
    THEN Val({IF S # {} THEN prices[LatestPriceRow(S)].price ELSE avg_cost
              : S \in {PriceRowsUpTo(sid, at)}})
  ELSE Val({IF S # {} THEN prices[LatestPriceRow(S)].price
            ELSE IF RLt(Zero, live[assets[sid].symbol]) THEN live[assets[sid].symbol]
            ELSE avg_cost
            : S \in {AnyPriceRows(sid)}})

(* quantity <= 0.0001 is filtered out, and so is a position whose asset row
   is missing *)
NearZero == <<1, 10000>>
OpenPositions(pos) ==
  SelectSeq(pos, LAMBDA h :
      /\ ~RLe(h.quantity, NearZero)
      /\ h.asset_id \in 1..Len(assets))

HoldingRow(pos, at, live) ==
  Val({Val({Val({
        [account_id |-> h.account_id, asset_id |-> h.asset_id,
         currency |-> assets[h.asset_id].currency,
         quantity |-> h.quantity,
         avg_cost |-> Round2(avg_cost),
         total_invested |-> Round2(h.total_cost),
         current_price |-> Round2(price),
         market_value |-> Round2(RMul(h.quantity, price)),
         market_value_usd |->
           Round2(_convert_to_usd(RMul(h.quantity, price), assets[h.asset_id].currency))]
        : price \in {HoldingPrice(h.asset_id, at, avg_cost, live)}})
      : avg_cost \in {RDiv(h.total_cost, h.quantity)}})
    : h \in {pos}})

calculate_holdings(at, live) ==
  Val({[i \in 1..Len(open) |-> HoldingRow(open[i], at, live)]
       : open \in {OpenPositions(HoldingsAfter(ts, Len(ts))) : ts \in {HoldingTxs(at)}}})

(* a replay that gives a SELL no cash effect *)
CashEffect_SellIgnored(type, amount) ==
  CASE type = "DEPOSIT" -> amount
    [] type = "WITHDRAW" -> RNeg(amount)
    [] type = "BUY" -> RNeg(amount)
    [] OTHER -> Zero

(* calculate_cash_balances_at_date: the effect of one transaction on the
   reconstructed balance of its account *)
CashEffect(type, amount) ==
  CASE type = "DEPOSIT" -> amount
    [] type = "WITHDRAW" -> RNeg(amount)
    [] type = "BUY" -> RNeg(amount)
    [] type = "SELL" -> amount
    [] OTHER -> Zero

CashTxs(at) == SelectSeq(txs, LAMBDA t : DtLe(t.date, EndOfDay(at)))

(* account_balances[aid] of calculate_cash_balances_at_date *)
AccountBalanceAt(aid, at) ==
  Val({SumSeq([i \in 1..Len(ts) |-> CashEffect(ts[i].type, ts[i].total)])
       : ts \in {SelectSeq(CashTxs(at), LAMBDA t : t.account_id = aid)}})

calculate_cash_balances_at_date(at) ==
  Val({SumFn([aid \in aids |->
                _convert_to_usd(AccountBalanceAt(aid, at), accounts[aid].currency)],
             aids)
       : aids \in {{ts[i].account_id : i \in 1..Len(ts)} \cap DOMAIN accounts
                   : ts \in {CashTxs(at)}}})

calculate_portfolio_value_at_date(at) ==
  Val({[total_equity |->
          RAdd(SumSeq([i \in 1..Len(holdings) |-> holdings[i].market_value_usd]), cash),
        total_cash |-> cash,
        total_invested |->
          SumSeq([i \in 1..Len(holdings) |->
                    _convert_to_usd(holdings[i].total_invested, holdings[i].currency)])]
       : holdings \in {calculate_holdings(at, <<>>)},
         cash \in {calculate_cash_balances_at_date(at)}})

calculate_summary(live) ==
  Val({[total_invested |->
          Round2(SumSeq([i \in 1..Len(holdings) |->
                   _convert_to_usd(holdings[i].total_invested, holdings[i].currency)])),
        total_cash |-> Round2(cash),
        total_equity |->
          Round2(RAdd(SumSeq([i \in 1..Len(holdings) |-> holdings[i].market_value_usd]),
                      cash)),
        holdings_count |-> Len(holdings)]
       : holdings \in {calculate_holdings(NoDate, live)},
         cash \in {SumFn([aid \in DOMAIN accounts |->
                            _convert_to_usd(accounts[aid].balance, accounts[aid].currency)],
                         DOMAIN accounts)}})

----------------------------------------------------------------------------
(* Price cache gateway (services/market_data.py) *)

(* What the provider holds when it is called: market.ok = FALSE when the
   download throws; otherwise market.days are the rows of the frame (trading
   days) and market.close[sym][d] is the close of sym on row d, or NaN *)
NaN == <<0, 0>>

(* df.ffill(): the last non-NaN close of sym on a row of the frame up to d *)
Ffill(market, rows, sym, d) ==
  Val({IF S = {} THEN NaN ELSE market.close[sym][MaxOf(S)]
       : S \in {{r \in rows : r <= d /\ market.close[sym][r] # NaN}}})

(* yf.download(fetch_list, start, end + 1 day)['Close'] reformatted to
   {date: {symbol: price}}, here a function on the (day, symbol) pairs it holds *)
Download(market, fetch_list, start_date, end_date) ==
  IF ~market.ok THEN <<>>
  ELSE Val({[k \in {k \in rows \X fetch_list : Ffill(market, rows, k[2], k[1]) # NaN}
               |-> Ffill(market, rows, k[2], k[1])]
            : rows \in {{d \in market.days : start_date <= d /\ d <= end_date}}})

(* an estimate that asks for more days than the range has *)
ExpectedDays_MoreThanRange(start_date, end_date) == end_date - start_date + 2

(* max(1, int(days_delta * 0.6)) *)
ExpectedDays(start_date, end_date) ==
  LET m == (3 * (end_date - start_date)) \div 5 IN IF m > 1 THEN m ELSE 1

(* existing is the set of (day, symbol) keys of existing_data *)
SymbolsToFetch(symbols, start_date, end_date, existing) ==
  IF existing = {} THEN symbols
  ELSE {sym \in symbols :
          Cardinality({k \in existing :
                         k[2] = sym /\ start_date <= k[1] /\ k[1] <= end_date})
            < ExpectedDays(start_date, end_date)}

(* How a call ends: it returns a value or an exception leaves it *)
Raised == [raised |-> TRUE]
Return(value) == [raised |-> FALSE, value |-> value]

(* a try block whose exception is not handled *)
Catch_Propagate(outcome, fallback) == outcome

(* try: <outcome> except Exception: return fallback *)
Catch(outcome, fallback) ==
  IF outcome.raised THEN Return(fallback) ELSE outcome

(* the try block of get_price_history_batch *)
DownloadOutcome(market, fetch_list, start_date, end_date) ==
  IF ~market.ok THEN Raised
  ELSE Return(Download(market, fetch_list, start_date, end_date))

(* get_price_history_batch as a call that returns or raises *)
get_price_history_batch_call(symbols, start_date, end_date, existing, market) ==
  IF symbols = {} THEN Return(<<>>)
  ELSE Val({IF fetch = {} THEN Return(<<>>)
            ELSE Catch(DownloadOutcome(market, fetch, start_date, end_date), <<>>)
            : fetch \in {SymbolsToFetch(symbols, start_date, end_date, existing)}})

get_price_history_batch(symbols, start_date, end_date, existing, market) ==
  get_price_history_batch_call(symbols, start_date, end_date, existing, market).value

(* What yf.Ticker(symbol) answers: fast_info is "raise", "none" (no price) or
   "price" (last_price, currency); history is "raise", "empty" or "rows"
   (close is the last Close); info is "raise", "bare" (no names, no currency)
   or "named" *)
get_asset_price(symbol, ticker) ==
  Catch(IF symbol = NoStr THEN Return(Zero)
        ELSE IF ticker.fast_info = "price" /\ ticker.last_price # Zero
               THEN Return(ticker.last_price)
        ELSE IF ticker.history = "raise" THEN Raised
        ELSE IF ticker.history = "rows" THEN Return(ticker.close)
        ELSE Return(Zero),
        Zero)

validate_symbol_exists(symbol, ticker) ==
  Catch(IF symbol = NoStr THEN Return([valid |-> FALSE, symbol |-> symbol])
        ELSE IF ticker.history = "raise" THEN Raised
        ELSE IF ticker.history = "empty"
               THEN Return([valid |-> FALSE, symbol |-> symbol])
        ELSE Val({Return([valid |-> TRUE, symbol |-> symbol,
                          name |-> IF ticker.info = "named" THEN ticker.name ELSE symbol,
                          currency |-> IF ticker.info = "named" THEN ticker.currency
                                       ELSE fast])
                  : fast \in {IF ticker.fast_info = "raise" THEN "USD"
                              ELSE ticker.currency}}),
        [valid |-> FALSE, symbol |-> symbol])

(* the number of yf.download calls that invocation makes *)
DownloadCalls(symbols, start_date, end_date, existing) ==
  IF symbols = {} \/ SymbolsToFetch(symbols, start_date, end_date, existing) = {}
    THEN 0 ELSE 1

----------------------------------------------------------------------------
(* PriceHistory upsert (services/portfolio.py) *)

AssetSymbols == {assets[i].symbol : i \in 1..Len(assets)} \ {NoStr}
AssetIdOf(symbol) == MinOf({i \in 1..Len(assets) : assets[i].symbol = symbol})

(* existing_rows -> existing_data of backfill_history / rebuild_snapshots_from *)
ExistingData(start_date) ==
  {<<prices[i].day, assets[prices[i].asset_id].symbol>> :
     i \in {j \in 1..Len(prices) :
              prices[j].day >= start_date /\ prices[j].asset_id \in 1..Len(assets)}}

(* an upsert that overwrites on any difference *)
PriceEpsilon_None == Zero

(* abs(existing.price - price) > 0.0001 *)
PriceEpsilon == <<1, 10000>>

(* an upsert that never finds the existing row *)
UpsertPrice_AlwaysInsert(table, day, asset_id, price) ==
  Append(table, [asset_id |-> asset_id, day |-> day, price |-> price])

(* one (day, symbol, price) of price_data merged into the rows *)
UpsertPrice(table, day, asset_id, price) ==
  Val({LET S == {i \in 1..Len(rows) : rows[i].asset_id = asset_id /\ rows[i].day = day}
       IN IF S # {}
            THEN LET i == MinOf(S)
                     diff == RSub(rows[i].price, price)
                 IN IF RLt(PriceEpsilon, IF RLt(diff, Zero) THEN RNeg(diff) ELSE diff)
                      THEN [rows EXCEPT ![i].price = price]
                      ELSE rows
            ELSE Append(rows, [asset_id |-> asset_id, day |-> day, price |-> price])
       : rows \in {table}})

(* the keys of price_data in iteration order: by day, then by asset *)
RECURSIVE KeySeq(_)
KeySeq(keys) ==
  Val({IF K = {} THEN <<>>
       ELSE Val({<<k>> \o KeySeq(K \ {k})
                 : k \in {CHOOSE x \in K : \A y \in K :
                            \/ x[1] < y[1]
                            \/ x[1] = y[1] /\ AssetIdOf(x[2]) <= AssetIdOf(y[2])}})
       : K \in {keys}})

RECURSIVE UpsertAll(_, _, _)
UpsertAll(table, price_data, keys) ==
  Val({IF Len(ks) = 0 THEN rows
       ELSE UpsertAll(UpsertPrice(rows, ks[1][1], AssetIdOf(ks[1][2]), pd[ks[1]]),
                      pd, Tail(ks))
       : rows \in {table}, pd \in {price_data}, ks \in {keys}})

_update_price_history(table, price_data) ==
  UpsertAll(table, price_data,
            KeySeq({k \in DOMAIN price_data : k[2] \in AssetSymbols}))

----------------------------------------------------------------------------
(* Snapshot store (services/portfolio.py) *)

NoCount == -1

SnapshotsOn(snaps, d) == {i \in 1..Len(snaps) : DayOf(snaps[i].date) = d}

(* an existence check that misses a snapshot dated exactly midnight *)
ExistsForDay_AfterMidnight(snaps, d) ==
  \E i \in 1..Len(snaps) :
    DtLt(Midnight(d), snaps[i].date) /\ DtLe(snaps[i].date, EndOfDay(d))

(* the existence check of _backfill_range for one day *)
ExistsForDay(snaps, d) ==
  \E i \in 1..Len(snaps) :
    DtLe(Midnight(d), snaps[i].date) /\ DtLe(snaps[i].date, EndOfDay(d))

(* _backfill_range over [cur, end_date]; vals[d] is
   calculate_portfolio_value_at_date(d) *)
RECURSIVE _backfill_range(_, _, _, _)
_backfill_range(table, cur, end_date, vals) ==
  IF cur > end_date THEN table
  ELSE Val({_backfill_range(
              IF ExistsForDay(snaps, cur) THEN snaps
              ELSE Append(snaps, [date |-> Midnight(cur),
                                  total_equity |-> vals[cur].total_equity,
                                  total_cash |-> vals[cur].total_cash,
                                  total_invested |-> vals[cur].total_invested,
                                  holdings_count |-> NoCount]),
              cur + 1, end_date, vals)
            : snaps \in {table}})

BackfillValues(start_date, end_date) ==
  [d \in start_date..end_date |-> calculate_portfolio_value_at_date(d)]

----------------------------------------------------------------------------
(* services/history_rebuilder.py *)

(* _apply_transaction_effect on the dict asset_id -> quantity *)
_apply_transaction_effect(tx, holdings) ==
  IF tx.type \in {"BUY", "SELL"} /\ tx.asset_id # NoId
    THEN LET old == IF tx.asset_id \in DOMAIN holdings THEN holdings[tx.asset_id] ELSE Zero
             new == IF tx.type = "BUY" THEN RAdd(old, tx.quantity)
                    ELSE RSub(old, tx.quantity)
         IN [a \in DOMAIN holdings \cup {tx.asset_id} |->
               IF a = tx.asset_id THEN new ELSE holdings[a]]
  ELSE holdings

(* cash / invested update for a transaction dated before start_date *)
RphEffectBefore(st, tx) ==
  CASE tx.type = "DEPOSIT" ->
         [st EXCEPT !.cash = RAdd(@, tx.total), !.invested = RAdd(@, tx.total)]
    [] tx.type = "WITHDRAW" ->
         [st EXCEPT !.cash = RSub(@, tx.total), !.invested = RSub(@, tx.total)]
    [] tx.type = "BUY" -> [st EXCEPT !.cash = RSub(@, tx.total)]
    [] tx.type = "SELL" -> [st EXCEPT !.cash = RAdd(@, tx.total)]
    [] OTHER -> st

(* cash / invested update for a transaction dated inside the range *)
RphEffectInRange(st, tx) ==
  CASE tx.type = "DEPOSIT" ->
         [st EXCEPT !.cash = RAdd(@, tx.total), !.invested = RAdd(@, tx.total)]
    [] tx.type = "WITHDRAW" ->
         [st EXCEPT !.cash = RSub(@, tx.total), !.invested = RSub(@, tx.total)]
    [] tx.type = "BUY" -> [st EXCEPT !.cash = RSub(@, tx.total)]
    [] tx.type = "SELL" -> [st EXCEPT !.cash = RAdd(@, tx.total)]
    [] tx.type \in {"INTEREST", "DIVIDEND"} -> [st EXCEPT !.cash = RAdd(@, tx.total)]
    [] tx.type = "FEE" -> [st EXCEPT !.cash = RSub(@, tx.total)]
    [] OTHER -> st

RphInit == [idx |-> 1, cash |-> Zero, invested |-> Zero, holdings |-> <<>>]

(* the loop over the transactions strictly before start_date *)
RECURSIVE RphBefore(_, _, _)
RphBefore(ts, state, start_date) ==
  Val({IF st.idx <= Len(ts) /\ DayOf(ts[st.idx].date) < start_date
         THEN RphBefore(ts,
                [RphEffectBefore(
                   [st EXCEPT !.holdings = _apply_transaction_effect(ts[st.idx], @)],
                   ts[st.idx])
                 EXCEPT !.idx = @ + 1],
                start_date)
         ELSE st
       : st \in {state}})

(* the inner loop applying the transactions on curr_date *)
RECURSIVE RphOnDay(_, _, _)
RphOnDay(ts, state, curr_date) ==
  Val({IF st.idx <= Len(ts) /\ DayOf(ts[st.idx].date) <= curr_date
         THEN RphOnDay(ts,
                [(IF DayOf(ts[st.idx].date) = curr_date
                    THEN RphEffectInRange(
                           [st EXCEPT !.holdings =
                                        _apply_transaction_effect(ts[st.idx], @)],
                           ts[st.idx])
                    ELSE st)
                 EXCEPT !.idx = @ + 1],
                curr_date)
         ELSE st
       : st \in {state}})

(* price_map.get(curr_date, {}).get(symbol, 0.0) *)
PriceMapGet(price_map, d, symbol) ==
  IF <<d, symbol>> \in DOMAIN price_map THEN price_map[<<d, symbol>>] ELSE Zero

(* holdings_value of one day *)
RphHoldingsValue(holdings, price_map, d) ==
  Val({SumFn([a \in held |->
                RMul(holdings[a], PriceMapGet(price_map, d, assets[a].symbol))], held)
       : held \in {{a \in DOMAIN holdings :
                      RLt(Zero, holdings[a]) /\ a \in 1..Len(assets)}}})

RphSnapshot(st, price_map, d) ==
  [date |-> Midnight(d),
   total_equity |-> RAdd(st.cash, RphHoldingsValue(st.holdings, price_map, d)),
   total_cash |-> st.cash,
   total_invested |-> st.invested,
   holdings_count |-> Cardinality({a \in DOMAIN st.holdings : RLt(Zero, st.holdings[a])})]

(* the loop over the days of [curr_date, end_date], appending one snapshot a day *)
RECURSIVE RphDays(_, _, _, _, _, _)
RphDays(ts, state, curr_date, end_date, price_map, table) ==
  IF curr_date > end_date THEN table
  ELSE Val({RphDays(ts, st, curr_date + 1, end_date, price_map,
                    Append(snaps, RphSnapshot(st, price_map, curr_date)))
            : st \in {RphOnDay(ts, state, curr_date)}, snaps \in {table}})

(* the symbols of the assets some transaction references *)
RphSymbols ==
  {assets[a].symbol :
     a \in {txs[i].asset_id : i \in 1..Len(txs)} \cap (1..Len(assets))}

(* snapshots with start_date <= date <= end_date are deleted: both bounds are
   dates, bound to the DateTime column as midnight *)
RphKept(start_date, end_date) ==
  SelectSeq(snapshots, LAMBDA sn :
      ~(DtLe(Midnight(start_date), sn.date) /\ DtLe(sn.date, Midnight(end_date))))

rebuild_portfolio_history(start_date, end_date, price_map) ==
  Val({RphDays(ts, RphBefore(ts, RphInit, start_date), start_date, end_date,
               price_map, RphKept(start_date, end_date))
       : ts \in {OrderByDate(txs)}})

----------------------------------------------------------------------------
(* Ledger handlers (routers/transactions.py, main.py) *)

NextId(ids) == IF ids = {} THEN 1 ELSE MaxOf(ids) + 1
TxIds == {txs[i].id : i \in 1..Len(txs)}
TxIndex(id) == MinOf({i \in 1..Len(txs) : txs[i].id = id})

(* a funds check that also refuses an amount equal to the balance *)
InsufficientFunds_Inclusive(balance, amount) == RLe(balance, amount)

(* the funds check of create_transaction for WITHDRAW and BUY *)
InsufficientFunds(balance, amount) == RLt(balance, amount)

(* step 4 of create_transaction *)
CreateBalance(balance, type, amount) ==
  CASE type = "DEPOSIT" -> RAdd(balance, amount)
    [] type = "WITHDRAW" -> RSub(balance, amount)
    [] type = "BUY" -> RSub(balance, amount)
    [] type = "SELL" -> RAdd(balance, amount)
    [] OTHER -> balance

(* a balance change that ignores the revert flag *)
_apply_balance_change_NoRevert(balance, tx_type, amount, revert) ==
  CreateBalance(balance, tx_type, amount)

(* a balance change that never lets the balance go below zero *)
_apply_balance_change_Floored(balance, tx_type, amount, revert) ==
  Val({IF RLt(b, Zero) THEN Zero ELSE b
       : b \in {IF revert = (tx_type \in {"DEPOSIT", "SELL"})
                  THEN IF tx_type \in {"DEPOSIT", "SELL", "WITHDRAW", "BUY"}
                         THEN RSub(balance, amount) ELSE balance
                  ELSE IF tx_type \in {"DEPOSIT", "SELL", "WITHDRAW", "BUY"}
                         THEN RAdd(balance, amount) ELSE balance}})

_apply_balance_change(balance, tx_type, amount, revert) ==
  IF revert
    THEN CASE tx_type = "DEPOSIT" -> RSub(balance, amount)
           [] tx_type = "WITHDRAW" -> RAdd(balance, amount)
           [] tx_type = "BUY" -> RAdd(balance, amount)
           [] tx_type = "SELL" -> RSub(balance, amount)
           [] OTHER -> balance
    ELSE CASE tx_type = "DEPOSIT" -> RAdd(balance, amount)
           [] tx_type = "WITHDRAW" -> RSub(balance, amount)
           [] tx_type = "BUY" -> RSub(balance, amount)
           [] tx_type = "SELL" -> RAdd(balance, amount)
           [] OTHER -> balance

(* _resolve_asset: the asset table after looking the symbol up or creating it *)
SymbolIds(table, symbol) == {i \in 1..Len(table) : table[i].symbol = symbol}
_resolve_asset(symbol) ==
  IF SymbolIds(assets, symbol) # {} THEN assets
  ELSE Append(assets, [symbol |-> symbol,
                       currency |-> _detect_currency_from_symbol(symbol)])

(* the amount of a request in the currency of the account *)
AmountInAccountCurrency(total, currency, account_currency) ==
  _convert_currency(total, IF currency # NoStr THEN currency ELSE account_currency,
                    account_currency)

create_transaction(payload) ==
  IF payload.account_id \notin DOMAIN accounts
    THEN /\ last' = [op |-> "create_transaction", status |-> 404,
                     arg |-> [payload |-> payload]]
         /\ UNCHANGED <<today, accounts, assets, txs, prices, snapshots, replay, runs>>
  ELSE
    \E amount \in {AmountInAccountCurrency(payload.total, payload.currency,
                                           accounts[payload.account_id].currency)} :
      IF /\ payload.type \in {"WITHDRAW", "BUY"}
         /\ InsufficientFunds(accounts[payload.account_id].balance, amount)
        THEN /\ last' = [op |-> "create_transaction", status |-> 400,
                         arg |-> [payload |-> payload, amount |-> amount]]
             /\ UNCHANGED <<today, accounts, assets, txs, prices, snapshots, replay, runs>>
        ELSE
          LET resolve == /\ payload.type \in {"BUY", "SELL"}
                         /\ payload.symbol # NoStr
                         /\ payload.asset_id = NoId
          IN /\ NextId(TxIds) <= MaxTx
             /\ accounts' = [accounts EXCEPT ![payload.account_id].balance =
                               CreateBalance(@, payload.type, amount)]
             /\ assets' = IF resolve THEN _resolve_asset(payload.symbol) ELSE assets
             /\ txs' = Append(txs,
                         [id |-> NextId(TxIds),
                          date |-> payload.date,
                          type |-> payload.type,
                          account_id |-> payload.account_id,
                          asset_id |-> IF resolve
                                         THEN MinOf(SymbolIds(assets', payload.symbol))
                                         ELSE payload.asset_id,
                          quantity |-> payload.quantity,
                          total |-> amount])
             /\ last' = [op |-> "create_transaction", status |-> 200,
                         arg |-> [payload |-> payload, amount |-> amount,
                                  tx_id |-> NextId(TxIds),
                                  affected |-> DayOf(payload.date)]]
             /\ UNCHANGED <<today, prices, snapshots, replay, runs>>

(* steps 4 and 7 of update_transaction; payload.set names the fields the
   request sets *)
EditedFields(tx, payload) ==
  [tx EXCEPT !.date = IF "date" \in payload.set THEN payload.date ELSE @,
             !.type = IF "type" \in payload.set THEN payload.type ELSE @,
             !.account_id = IF "account_id" \in payload.set THEN payload.account_id ELSE @,
             !.asset_id = IF "asset_id" \in payload.set THEN payload.asset_id ELSE @,
             !.quantity = IF "quantity" \in payload.set THEN payload.quantity ELSE @]

EditedTotal(tx, payload, account_currency) ==
  IF "total" \in payload.set
    THEN AmountInAccountCurrency(payload.total,
                                 IF "currency" \in payload.set THEN payload.currency
                                 ELSE NoStr,
                                 account_currency)
    ELSE tx.total

update_transaction(transaction_id, payload) ==
  IF transaction_id \notin TxIds
    THEN /\ last' = [op |-> "update_transaction", status |-> 404,
                     arg |-> [tx_id |-> transaction_id, payload |-> payload]]
         /\ UNCHANGED <<today, accounts, assets, txs, prices, snapshots, replay, runs>>
  ELSE
    \E i \in {TxIndex(transaction_id)} :
    \E tx1 \in {EditedFields(txs[i], payload)} :
      IF txs[i].account_id \notin DOMAIN accounts \/ tx1.account_id \notin DOMAIN accounts
        THEN /\ last' = [op |-> "update_transaction", status |-> 404,
                         arg |-> [tx_id |-> transaction_id, payload |-> payload]]
             /\ UNCHANGED <<today, accounts, assets, txs, prices, snapshots, replay, runs>>
        ELSE
          \E tx2 \in {[tx1 EXCEPT !.total =
                         EditedTotal(tx1, payload, accounts[tx1.account_id].currency)]} :
          \E reverted \in {[accounts EXCEPT ![txs[i].account_id].balance =
                              _apply_balance_change(@, txs[i].type, txs[i].total, TRUE)]} :
            /\ accounts' = [reverted EXCEPT ![tx2.account_id].balance =
                              _apply_balance_change(@, tx2.type, tx2.total, FALSE)]
            /\ txs' = [txs EXCEPT ![i] = tx2]
            /\ last' = [op |-> "update_transaction", status |-> 200,
                        arg |-> [tx_id |-> transaction_id, payload |-> payload,
                                 old |-> txs[i],
                                 affected |-> IF DayOf(txs[i].date) < DayOf(tx2.date)
                                                THEN DayOf(txs[i].date)
                                                ELSE DayOf(tx2.date)]]
            /\ UNCHANGED <<today, assets, prices, snapshots, replay, runs>>

----------------------------------------------------------------------------
(* Snapshot writers *)

(* the PriceHistory table after the price fetch of rebuild_snapshots_from *)
RebuildPrices(from_date, market) ==
  Val({IF DOMAIN price_data # {} THEN _update_price_history(prices, price_data)
       ELSE prices
       : price_data \in {get_price_history_batch(AssetSymbols, from_date, today,
                                                 ExistingData(from_date), market)}})

(* a rebuild that deletes every snapshot before it backfills *)
SnapshotsBefore_DropAll(from_date) == <<>>

(* a rebuild that deletes nothing before it backfills *)
SnapshotsBefore_KeepAll(from_date) == snapshots

(* what the delete of rebuild_snapshots_from leaves: the snapshots dated
   before midnight of from_date *)
SnapshotsBefore(from_date) ==
  SelectSeq(snapshots, LAMBDA sn : DtLt(sn.date, Midnight(from_date)))

(* rebuild_snapshots_from on the ledger of the next state: the caller sets
   today', accounts', assets' (unchanged) and txs' *)
RebuildSnapshots(from_date, market) ==
  /\ prices' = RebuildPrices(from_date, market)
  /\ \E vals \in {BackfillValues(from_date, today)'} :
       snapshots' = _backfill_range(SnapshotsBefore(from_date), from_date, today, vals)

rebuild_snapshots_from(from_date, market) ==
  /\ UNCHANGED <<today, accounts, assets, txs, replay, runs>>
  /\ RebuildSnapshots(from_date, market)
  /\ last' = [op |-> "rebuild_snapshots_from", status |-> 200,
              arg |-> [from_date |-> from_date,
                       deleted |-> Len(snapshots) - Len(SnapshotsBefore(from_date)),
                       downloads |-> DownloadCalls(AssetSymbols, from_date, today,
                                                   ExistingData(from_date)),
                       provider_ok |-> market.ok]]

backfill_history(market) ==
  /\ UNCHANGED <<today, accounts, assets, txs, replay, runs>>
  /\ IF txs = <<>> THEN UNCHANGED <<prices, snapshots>>
     ELSE \E start_date \in {DayOf(OrderByDate(txs)[1].date)} :
            /\ prices' =
                 IF AssetSymbols # {}
                   THEN Val({_update_price_history(prices, price_data)
                             : price_data \in
                                 {get_price_history_batch(AssetSymbols, start_date, today,
                                    ExistingData(start_date), market)}})
                   ELSE prices
            /\ \E vals \in {BackfillValues(start_date, today)'} :
                 snapshots' = _backfill_range(snapshots, start_date, today, vals)
  /\ last' = [op |-> "backfill_history", status |-> 200,
              arg |-> [again |-> last.op = "backfill_history",
                       created |-> Len(snapshots') - Len(snapshots)]]

(* tod is the time of day of datetime.utcnow(); live is what get_asset_price
   returns for each symbol *)
record_daily_snapshot(tod, live) ==
  /\ UNCHANGED <<today, accounts, assets, txs, prices, replay, runs>>
  /\ IF \E i \in 1..Len(snapshots) : DtLe(Midnight(today), snapshots[i].date)
       THEN /\ UNCHANGED snapshots
            /\ last' = [op |-> "record_daily_snapshot", status |-> 200,
                        arg |-> [created |-> FALSE]]
       ELSE \E summary \in {calculate_summary(live)} :
               /\ snapshots' = Append(snapshots,
                                 [date |-> <<today, tod>>,
                                  total_equity |-> summary.total_equity,
                                  total_cash |-> summary.total_cash,
                                  total_invested |-> summary.total_invested,
                                  holdings_count |-> NoCount])
               /\ last' = [op |-> "record_daily_snapshot", status |-> 200,
                           arg |-> [created |-> TRUE]]

(* POST /analytics/rebuild-history, and rebuild_portfolio_history called with
   an end_date *)
trigger_history_rebuild(start_date, end_date, market) ==
  /\ UNCHANGED <<today, accounts, assets, txs, prices, replay, runs>>
  /\ \E price_map \in {get_price_history_batch(RphSymbols, start_date, end_date,
                                               {}, market)} :
       /\ snapshots' = rebuild_portfolio_history(start_date, end_date, price_map)
       /\ last' = [op |-> "rebuild_portfolio_history", status |-> 200,
                   arg |-> [start_date |-> start_date, end_date |-> end_date,
                            price_map |-> price_map]]

(* payload.inception_date is a datetime, payload.has_inception tells whether
   the request gives one (datetime.utcnow() otherwise) *)
create_account(payload, tod, market) ==
  \E inception \in {IF payload.has_inception THEN payload.inception_date
                    ELSE <<today, tod>>} :
  \E account_id \in {NextId(DOMAIN accounts)} :
     /\ account_id <= MaxAccounts
     /\ RLt(Zero, payload.balance) => NextId(TxIds) <= MaxTx
     /\ accounts' = [a \in DOMAIN accounts \cup {account_id} |->
                       IF a = account_id
                         THEN [currency |-> payload.currency,
                               balance |-> payload.balance,
                               inception_date |-> inception]
                         ELSE accounts[a]]
     /\ txs' = IF RLt(Zero, payload.balance)
                 THEN Append(txs, [id |-> NextId(TxIds),
                                   date |-> inception,
                                   type |-> "DEPOSIT",
                                   account_id |-> account_id,
                                   asset_id |-> NoId,
                                   quantity |-> Zero,
                                   total |-> payload.balance])
                 ELSE txs
     /\ UNCHANGED <<today, assets, replay, runs>>
     /\ RebuildSnapshots(DayOf(inception), market)
     /\ last' = [op |-> "create_account", status |-> 200,
                 arg |-> [account_id |-> account_id,
                          affected |-> DayOf(inception),
                          deleted |-> Len(snapshots)
                                        - Len(SnapshotsBefore(DayOf(inception)))]]

(* rebuild_date of delete_account *)
RebuildDate(account_id) ==
  LET own == SelectSeq(txs, LAMBDA t : t.account_id = account_id)
      inc == DayOf(accounts[account_id].inception_date)
  IN IF own # <<>> /\ DayOf(OrderByDate(own)[1].date) < inc
       THEN DayOf(OrderByDate(own)[1].date) ELSE inc

delete_account(account_id, market) ==
  IF account_id \notin DOMAIN accounts
    THEN /\ last' = [op |-> "delete_account", status |-> 404,
                     arg |-> [account_id |-> account_id]]
         /\ UNCHANGED <<today, accounts, assets, txs, prices, snapshots, replay, runs>>
  ELSE \E rebuild_date \in {RebuildDate(account_id)} :
         /\ txs' = SelectSeq(txs, LAMBDA t : t.account_id # account_id)
         /\ accounts' = [a \in DOMAIN accounts \ {account_id} |-> accounts[a]]
         /\ UNCHANGED <<today, assets, replay, runs>>
         /\ RebuildSnapshots(rebuild_date, market)
         /\ last' = [op |-> "delete_account", status |-> 200,
                     arg |-> [account_id |-> account_id, affected |-> rebuild_date,
                              removed |-> Len(txs) - Len(txs'),
                              deleted |-> Len(snapshots)
                                            - Len(SnapshotsBefore(rebuild_date))]]

(* a call of calculate_cash_balances_at_date(session, target_date) *)
cash_balances_at_date(target_date) ==
  /\ last' = [op |-> "calculate_cash_balances_at_date", status |-> 200,
              arg |-> [target_date |-> target_date,
                       result |-> calculate_cash_balances_at_date(target_date)]]
  /\ UNCHANGED <<today, accounts, assets, txs, prices, snapshots, replay, runs>>

(* midnight passes *)
NextDay ==
  /\ today < MaxDay
  /\ today' = today + 1
  /\ last' = [op |-> "next_day", status |-> 200, arg |-> [none |-> TRUE]]
  /\ UNCHANGED <<accounts, assets, txs, prices, snapshots, replay, runs>>

(* calculate_holdings (live view), one iteration of its loop at a time *)
ReplayStart == [k |-> 0, holdings |-> <<>>]

calculate_holdings_step ==
  /\ replay.k < Len(HoldingTxs(NoDate))
  /\ replay' = [k |-> replay.k + 1,
                holdings |-> HoldingsStep(replay.holdings,
                                          HoldingTxs(NoDate)[replay.k + 1])]
  /\ UNCHANGED <<today, accounts, assets, txs, prices, snapshots, last, runs>>

----------------------------------------------------------------------------
(* The provider, as the requests of one call see it *)
MarketDown == [ok |-> FALSE]
FlatMarket(symbols, days, price) ==
  [ok |-> TRUE, days |-> days,
   close |-> [sym \in symbols |-> [d \in days |-> price]]]

NoLive == [sym \in {"AAPL", "0700.HK"} |-> Zero]

(* _convert_currency of the drawn amount from from_curr to to_curr and back;
   entry_usd and valuation_usd are the amount in USD as create_transaction
   and as the valuation convert it *)
convert_round_trip ==
  /\ last.op = "input"
  /\ \E amount \in {last.arg.amount}, from_curr \in {last.arg.from_curr},
        to_curr \in {last.arg.to_curr} :
       \E there \in {_convert_currency_float(amount, from_curr, to_curr)} :
         \E back \in {_convert_currency_float(there, to_curr, from_curr)} :
           last' = [op |-> "_convert_currency", status |-> 200,
                    arg |-> [amount |-> amount, from_curr |-> from_curr,
                             to_curr |-> to_curr, there |-> there, back |-> back,
                             entry_usd |-> _convert_currency(amount, from_curr, "USD"),
                             valuation_usd |-> _convert_to_usd(amount, from_curr)]]
  /\ UNCHANGED <<today, accounts, assets, txs, prices, snapshots, replay, runs>>

(* a call of _update_price_history(session, price_data, assets) *)
price_history_update(price_data) ==
  /\ prices' = _update_price_history(prices, price_data)
  /\ last' = [op |-> "_update_price_history", status |-> 200,
              arg |-> [existing |->
                         Cardinality({k \in DOMAIN price_data :
                           /\ k[2] \in AssetSymbols
                           /\ \E i \in 1..Len(prices) :
                                /\ prices[i].day = k[1]
                                /\ prices[i].asset_id = AssetIdOf(k[2])})]]
  /\ UNCHANGED <<today, accounts, assets, txs, snapshots, replay, runs>>

(* calls of the three functions of services/market_data.py *)
price_lookup(symbol, ticker) ==
  /\ last' = [op |-> "get_asset_price", status |-> 200,
              arg |-> [symbol |-> symbol, ticker |-> ticker,
                       outcome |-> get_asset_price(symbol, ticker)]]
  /\ UNCHANGED <<today, accounts, assets, txs, prices, snapshots, replay, runs>>

symbol_validation(symbol, ticker) ==
  /\ last' = [op |-> "validate_symbol_exists", status |-> 200,
              arg |-> [symbol |-> symbol, ticker |-> ticker,
                       outcome |-> validate_symbol_exists(symbol, ticker)]]
  /\ UNCHANGED <<today, accounts, assets, txs, prices, snapshots, replay, runs>>

(* a call of _update_price_history whose price_data is kept, to tell a merge
   of the same data from a merge of other data *)
price_history_merge(price_data) ==
  /\ prices' = _update_price_history(prices, price_data)
  /\ last' = [op |-> "_update_price_history", status |-> 200,
              arg |-> [price_data |-> price_data]]
  /\ UNCHANGED <<today, accounts, assets, txs, snapshots, replay, runs>>

(* requests is the sequence of symbol lists yf.download was called with *)
price_history_fetch(symbols, start_date, end_date, existing, market) ==
  /\ last' = [op |-> "get_price_history_batch", status |-> 200,
              arg |-> [symbols |-> symbols, start_date |-> start_date,
                       end_date |-> end_date, existing |-> existing,
                       market |-> market,
                       requests |->
                         IF DownloadCalls(symbols, start_date, end_date, existing) = 0
                           THEN <<>>
                           ELSE <<SymbolsToFetch(symbols, start_date, end_date,
                                                 existing)>>,
                       outcome |-> get_price_history_batch_call(symbols, start_date,
                                     end_date, existing, market)]]
  /\ UNCHANGED <<today, accounts, assets, txs, prices, snapshots, replay, runs>>

(* a call of calculate_holdings(session, at_date=at_date) *)
holdings_at_date(at_date) ==
  /\ last' = [op |-> "calculate_holdings", status |-> 200,
              arg |-> [at_date |-> at_date,
                       result |-> calculate_holdings(at_date, NoLive)]]
  /\ UNCHANGED <<today, accounts, assets, txs, prices, snapshots, replay, runs>>

----------------------------------------------------------------------------
(* The snapshot rebuilds one database round trip at a time. Every run works
   in a session of its own on the one database: a statement reads what the
   other sessions have committed, and session.commit() ends every write of
   _backfill_range and of rebuild_snapshots_from. PortfolioSnapshot.date is
   indexed and carries no unique constraint. *)
Runs == 1..MaxRuns

(* fetched: the price fetch and the upsert of the run have completed;
   after: the runs that had ended when this one began *)
NoRuns ==
  [r \in Runs |-> [op |-> "none", pc |-> "idle", from_date |-> 0, cur |-> 0,
                   fetched |-> FALSE, after |-> {}]]

Ended == {r \in Runs : runs[r].pc \in {"done", "aborted"}}

(* rebuild_snapshots_from: the delete of the snapshots dated from_date or
   later, and its commit *)
rebuild_delete(r, from_date) ==
  /\ runs[r].pc = "idle"
  /\ snapshots' = SnapshotsBefore(from_date)
  /\ runs' = [runs EXCEPT ![r] = [op |-> "rebuild_snapshots_from",
                                  pc |-> "fetch", from_date |-> from_date,
                                  cur |-> from_date, fetched |-> FALSE,
                                  after |-> Ended]]
  /\ UNCHANGED <<today, accounts, assets, txs, prices, last, replay, steps>>

(* backfill_history up to its price fetch: the range starts on the day of the
   first transaction, and nothing is deleted *)
backfill_first_tx(r) ==
  /\ runs[r].pc = "idle"
  /\ txs # <<>>
  /\ \E start_date \in {DayOf(OrderByDate(txs)[1].date)} :
       runs' = [runs EXCEPT ![r] = [op |-> "backfill_history", pc |-> "fetch",
                                    from_date |-> start_date,
                                    cur |-> start_date, fetched |-> FALSE,
                                    after |-> Ended]]
  /\ UNCHANGED <<today, accounts, assets, txs, prices, snapshots, last, replay,
                 steps>>

(* a run that goes on to _backfill_range with the price fetch still to do *)
price_fetch_Deferred(r, market) ==
  /\ runs[r].pc = "fetch"
  /\ runs' = [runs EXCEPT ![r].pc = "check"]
  /\ UNCHANGED <<today, accounts, assets, txs, prices, snapshots, last, replay,
                 steps>>

(* the price fetch for the whole range and _update_price_history, which
   commits; _backfill_range starts at the first day of the range *)
price_fetch(r, market) ==
  /\ runs[r].pc = "fetch"
  /\ prices' = RebuildPrices(runs[r].from_date, market)
  /\ runs' = [runs EXCEPT ![r].pc = "check", ![r].fetched = TRUE]
  /\ UNCHANGED <<today, accounts, assets, txs, snapshots, last, replay, steps>>

(* _backfill_range: the loop test and the existence check of the day *)
backfill_check(r) ==
  /\ runs[r].pc = "check"
  /\ runs' =
       IF runs[r].cur > today THEN [runs EXCEPT ![r].pc = "done"]
       ELSE IF ExistsForDay(snapshots, runs[r].cur)
         THEN [runs EXCEPT ![r].cur = runs[r].cur + 1]
         ELSE [runs EXCEPT ![r].pc = "insert"]
  /\ UNCHANGED <<today, accounts, assets, txs, prices, snapshots, last, replay,
                 steps>>

(* _backfill_range: the valuation of the day, the insert and its commit *)
backfill_insert(r) ==
  /\ runs[r].pc = "insert"
  /\ \E vals \in {calculate_portfolio_value_at_date(runs[r].cur)} :
       snapshots' = Append(snapshots, [date |-> Midnight(runs[r].cur),
                                       total_equity |-> vals.total_equity,
                                       total_cash |-> vals.total_cash,
                                       total_invested |-> vals.total_invested,
                                       holdings_count |-> NoCount])
  /\ runs' = [runs EXCEPT ![r].pc = "check", ![r].cur = runs[r].cur + 1]
  /\ UNCHANGED <<today, accounts, assets, txs, prices, last, replay, steps>>

(* an exception ends the run while it processes a day; what it committed
   stays *)
run_abort(r) ==
  /\ runs[r].pc \in {"check", "insert"}
  /\ runs[r].cur <= today
  /\ runs' = [runs EXCEPT ![r].pc = "aborted"]
  /\ UNCHANGED <<today, accounts, assets, txs, prices, snapshots, last, replay,
                 steps>>

(* record_daily_snapshot up to its existence check: the select of a snapshot
   dated at or after the start of today, and the return of None when there
   is one *)
snapshot_check(r) ==
  /\ runs[r].pc = "idle"
  /\ runs' = [runs EXCEPT ![r] =
                [op |-> "record_daily_snapshot",
                 pc |-> IF \E i \in 1..Len(snapshots) :
                             DtLe(Midnight(today), snapshots[i].date)
                          THEN "done" ELSE "save",
                 from_date |-> today, cur |-> today, fetched |-> FALSE,
                 after |-> Ended]]
  /\ UNCHANGED <<today, accounts, assets, txs, prices, snapshots, last, replay,
                 steps>>

(* record_daily_snapshot after the check found nothing: calculate_summary,
   the insert dated datetime.utcnow() and its commit *)
snapshot_save(r, tod) ==
  /\ runs[r].pc = "save"
  /\ \E summary \in {calculate_summary(NoLive)} :
       snapshots' = Append(snapshots,
                      [date |-> <<today, tod>>,
                       total_equity |-> summary.total_equity,
                       total_cash |-> summary.total_cash,
                       total_invested |-> summary.total_invested,
                       holdings_count |-> NoCount])
  /\ runs' = [runs EXCEPT ![r].pc = "done"]
  /\ UNCHANGED <<today, accounts, assets, txs, prices, last, replay, steps>>

InitState ==
  /\ today = 0
  /\ accounts = <<>>
  /\ assets = <<>>
  /\ txs = <<>>
  /\ prices = <<>>
  /\ snapshots = <<>>
  /\ last = [op |-> "init", status |-> 200, arg |-> [none |-> TRUE]]
  /\ replay = ReplayStart
  /\ runs = NoRuns
  /\ steps = 0

(* one more operation is served *)
Serve ==
  /\ steps < MaxSteps
  /\ steps' = steps + 1

----------------------------------------------------------------------------
(* The whole backend, requests served one at a time *)
Markets == {MarketDown, FlatMarket({"AAPL"}, Days, Num(2))}

AccountPayloads ==
  {[currency |-> "USD", balance |-> b, has_inception |-> h, inception_date |-> <<0, 1>>] :
     b \in {Zero, Num(2)}, h \in BOOLEAN}
  \cup {[currency |-> "HKD", balance |-> Num(2), has_inception |-> TRUE,
          inception_date |-> <<0, 1>>]}

TxPayloads ==
  {[date |-> <<d, 1>>, type |-> "DEPOSIT", account_id |-> 1, asset_id |-> NoId,
    symbol |-> NoStr, currency |-> NoStr, quantity |-> Zero, total |-> Num(1)] :
     d \in Days}
  \cup
  {[date |-> <<d, 1>>, type |-> "BUY", account_id |-> 1, asset_id |-> NoId,
    symbol |-> "AAPL", currency |-> NoStr, quantity |-> Num(1), total |-> Num(1)] :
     d \in Days}

NoEdit ==
  [set |-> {}, date |-> <<0, 0>>, type |-> "DEPOSIT", account_id |-> 0,
   asset_id |-> NoId, quantity |-> Zero, total |-> Zero, currency |-> NoStr]

UpdatePayloads ==
  {[NoEdit EXCEPT !.set = {"total"}, !.total = Num(2)],
   [NoEdit EXCEPT !.set = {"date"}, !.date = <<0, 1>>]}

Init == InitState

Next ==
  \/ \E p \in AccountPayloads, m \in Markets : Serve /\ create_account(p, 1, m)
  \/ \E a \in 1..MaxAccounts, m \in Markets : Serve /\ delete_account(a, m)
  \/ \E p \in TxPayloads : Serve /\ create_transaction(p)
  \/ \E id \in 1..MaxTx, p \in UpdatePayloads : Serve /\ update_transaction(id, p)
  \/ \E tod \in {0, 1, 2} : Serve /\ record_daily_snapshot(tod, NoLive)
  \/ \E m \in Markets : Serve /\ backfill_history(m)
  \/ \E d \in Days, m \in Markets : Serve /\ rebuild_snapshots_from(d, m)
  \/ \E s \in Days, e \in Days, m \in Markets : Serve /\ trigger_history_rebuild(s, e, m)
  \/ Serve /\ NextDay

Spec == Init /\ [][Next]_vars

----------------------------------------------------------------------------
(* The ledger alone: accounts in two currencies, the four balance-moving
   transaction types, edits of type, amount, currency and account *)
LedgerAccountPayloads ==
  {[currency |-> c, balance |-> b, has_inception |-> TRUE, inception_date |-> <<0, 1>>] :
     c \in {"USD", "HKD"}, b \in {Zero, Num(100)}}

LedgerTxPayloads ==
  {[date |-> <<0, 1>>, type |-> t, account_id |-> 1, asset_id |-> NoId,
    symbol |-> IF t \in {"BUY", "SELL"} THEN "AAPL" ELSE NoStr,
    currency |-> c,
    quantity |-> IF t \in {"BUY", "SELL"} THEN Num(1) ELSE Zero,
    total |-> Num(n)] :
     t \in {"DEPOSIT", "WITHDRAW", "BUY", "SELL"}, c \in {NoStr, "USD"}, n \in {100, 200}}

LedgerUpdatePayloads ==
  {[NoEdit EXCEPT !.set = {"type"}, !.type = t] :
     t \in {"DEPOSIT", "WITHDRAW", "BUY", "SELL"}}
  \cup
  {[NoEdit EXCEPT !.set = {"total"}, !.total = Num(n)] : n \in {100, 200}}
  \cup
  {[NoEdit EXCEPT !.set = {"type", "total"}, !.type = t, !.total = Num(200)] :
     t \in {"WITHDRAW", "SELL"}}
  \cup
  {[NoEdit EXCEPT !.set = {"total", "currency"}, !.total = Num(100), !.currency = "USD"],
   [NoEdit EXCEPT !.set = {"account_id"}, !.account_id = 2],
   [NoEdit EXCEPT !.set = {"type"}, !.type = "FEE"]}

NextLedger ==
  \/ \E p \in LedgerAccountPayloads : Serve /\ create_account(p, 1, MarketDown)
  \/ \E p \in LedgerTxPayloads : Serve /\ create_transaction(p)
  \/ \E id \in 1..MaxTx, p \in LedgerUpdatePayloads : Serve /\ update_transaction(id, p)

SpecLedger == InitState /\ [][NextLedger]_vars

----------------------------------------------------------------------------
(* The replay of calculate_holdings on ledgers of purchases and sales of one
   asset in one funded account *)
HoldingLegs ==
  {[type |-> t, quantity |-> Num(q), total |-> Num(c)] :
     t \in {"BUY", "SELL"}, q \in {3, 5, 10}, c \in {1000, 1500}}

HoldingLedgers == UNION {[1..n -> HoldingLegs] : n \in 1..MaxReplayLen}

Funding == Num(10000)

LedgerOf(legs) ==
  <<[id |-> 1, date |-> <<0, 0>>, type |-> "DEPOSIT", account_id |-> 1,
     asset_id |-> NoId, quantity |-> Zero, total |-> Funding]>>
  \o [i \in 1..Len(legs) |->
        [id |-> i + 1, date |-> <<0, 1>>, type |-> legs[i].type, account_id |-> 1,
         asset_id |-> 1, quantity |-> legs[i].quantity, total |-> legs[i].total]]

InitHoldings ==
  \E legs \in HoldingLedgers :
    /\ today = 0
    /\ txs = LedgerOf(legs)
    /\ accounts = [a \in {1} |->
                     [currency |-> "USD",
                      balance |-> SumSeq([i \in 1..Len(txs) |->
                                            CashEffect(txs[i].type, txs[i].total)]),
                      inception_date |-> <<0, 0>>]]
    /\ assets = <<[symbol |-> "AAPL", currency |-> "USD"]>>
    /\ prices = <<>>
    /\ snapshots = <<>>
    /\ last = [op |-> "init", status |-> 200, arg |-> [none |-> TRUE]]
    /\ replay = ReplayStart
    /\ runs = NoRuns
    /\ steps = 0

NextHoldings == Serve /\ calculate_holdings_step

SpecHoldings == InitHoldings /\ [][NextHoldings]_vars

----------------------------------------------------------------------------
(* The two cash reconstructions on ledgers of all seven transaction types in
   one USD account, with a market whose close rises day by day *)
RisingMarket ==
  [ok |-> TRUE, days |-> Days,
   close |-> [sym \in {"AAPL"} |-> [d \in Days |-> Num(100 + 5 * d)]]]

ReplayAccountPayloads ==
  {[currency |-> "USD", balance |-> b, has_inception |-> TRUE, inception_date |-> <<0, 1>>] :
     b \in {Zero, Num(1000)}}

ReplayTxPayloads ==
  {[date |-> <<d, 1>>, type |-> t, account_id |-> 1, asset_id |-> NoId,
    symbol |-> IF t \in {"BUY", "SELL"} THEN "AAPL" ELSE NoStr,
    currency |-> NoStr,
    quantity |-> IF t \in {"BUY", "SELL"} THEN Num(10) ELSE Zero,
    total |-> Num(1000)] :
     t \in TransactionType, d \in Days}

NextReplay ==
  \/ \E p \in ReplayAccountPayloads : Serve /\ create_account(p, 1, MarketDown)
  \/ \E p \in ReplayTxPayloads : Serve /\ create_transaction(p)
  \/ \E s \in Days, e \in Days, m \in {MarketDown, RisingMarket} :
       Serve /\ trigger_history_rebuild(s, e, m)
  \/ \E d \in Days : Serve /\ cash_balances_at_date(d)

SpecReplay == InitState /\ [][NextReplay]_vars

----------------------------------------------------------------------------
(* The at-date valuation of calculate_holdings on a funded USD account that
   bought one or two assets, over price caches that hold a rising price for
   some of the days *)
ValuationBuys ==
  {[day |-> d, quantity |-> Num(q), total |-> Num(c)] :
     d \in Days, q \in {3, 10}, c \in {1000, 1500}}

ValuationLedger(first, second) ==
  <<[id |-> 1, date |-> <<0, 0>>, type |-> "DEPOSIT", account_id |-> 1,
     asset_id |-> NoId, quantity |-> Zero, total |-> Funding],
    [id |-> 2, date |-> <<first.day, 1>>, type |-> "BUY", account_id |-> 1,
     asset_id |-> 1, quantity |-> first.quantity, total |-> first.total]>>
  \o (IF second THEN <<[id |-> 3, date |-> <<1, 1>>, type |-> "BUY", account_id |-> 1,
                         asset_id |-> 2, quantity |-> Num(10), total |-> Num(1000)]>>
      ELSE <<>>)

(* the rows of one asset for the days of cached, by day ascending or descending *)
RECURSIVE CachedRows(_, _, _, _)
CachedRows(asset_id, cached, base, ascending) ==
  IF cached = {} THEN <<>>
  ELSE LET d == IF ascending THEN MinOf(cached) ELSE MaxOf(cached)
       IN <<[asset_id |-> asset_id, day |-> d, price |-> Num(base + 5 * d)]>>
          \o CachedRows(asset_id, cached \ {d}, base, ascending)

InitValuation ==
  \E first \in ValuationBuys, second \in BOOLEAN, cached \in SUBSET Days,
     ascending \in BOOLEAN :
    /\ today = MaxDay
    /\ txs = ValuationLedger(first, second)
    /\ accounts = [a \in {1} |->
                     [currency |-> "USD",
                      balance |-> SumSeq([i \in 1..Len(txs) |->
                                            CashEffect(txs[i].type, txs[i].total)]),
                      inception_date |-> <<0, 0>>]]
    /\ assets = <<[symbol |-> "AAPL", currency |-> "USD"],
                  [symbol |-> "0700.HK", currency |-> "HKD"]>>
    /\ prices = CachedRows(1, cached, 100, ascending)
                  \o CachedRows(2, IF second THEN {1} ELSE {}, 50, TRUE)
    /\ snapshots = <<>>
    /\ last = [op |-> "init", status |-> 200, arg |-> [none |-> TRUE]]
    /\ replay = ReplayStart
    /\ runs = NoRuns
    /\ steps = 0

NextValuation == \E d \in Days : Serve /\ holdings_at_date(d)

SpecValuation == InitValuation /\ [][NextValuation]_vars

----------------------------------------------------------------------------
(* The functions of services/market_data.py against a provider that answers,
   answers nothing, or throws *)
Tickers ==
  [fast_info : {"raise", "none", "price"}, last_price : {Num(3)},
   history : {"raise", "empty", "rows"}, close : {Num(2)},
   info : {"raise", "bare", "named"}, name : {"Apple Inc."}, currency : {"HKD"}]

NextMarketData ==
  \/ \E symbol \in {NoStr, "AAPL", "NOPE"}, ticker \in Tickers :
       Serve /\ price_lookup(symbol, ticker)
  \/ \E symbol \in {NoStr, "AAPL", "NOPE"}, ticker \in Tickers :
       Serve /\ symbol_validation(symbol, ticker)
  \/ \E symbols \in {{}, {"AAPL"}, {"AAPL", "0700.HK"}},
        start_date \in Days, end_date \in 0..(MaxDay + 2),
        existing \in {{}, {<<0, "AAPL">>}, {<<0, "AAPL">>, <<0, "0700.HK">>},
                      {<<0, "AAPL">>, <<1, "AAPL">>, <<0, "0700.HK">>},
                      {<<0, "AAPL">>, <<1, "AAPL">>, <<2, "0700.HK">>,
                       <<3, "0700.HK">>}},
        market \in {MarketDown, FlatMarket({"AAPL", "0700.HK"}, {}, Num(2)),
                    FlatMarket({"AAPL", "0700.HK"}, Days, Num(2))} :
       Serve /\ price_history_fetch(symbols, start_date, end_date, existing, market)

SpecMarketData == InitState /\ [][NextMarketData]_vars

----------------------------------------------------------------------------
(* _convert_currency there and back, over whole amounts and over the
   currencies of the rate table and one that is not in it *)
InitConversion ==
  \E amount \in {Num(n) : n \in 1..MaxAmount},
     from_curr \in {"USD", "HKD", "MOP", "CNY", "EUR"},
     to_curr \in {"USD", "HKD", "MOP", "CNY", "EUR"} :
    /\ today = 0
    /\ accounts = <<>>
    /\ assets = <<>>
    /\ txs = <<>>
    /\ prices = <<>>
    /\ snapshots = <<>>
    /\ last = [op |-> "input", status |-> 200,
               arg |-> [amount |-> amount, from_curr |-> from_curr,
                        to_curr |-> to_curr]]
    /\ replay = ReplayStart
    /\ runs = NoRuns
    /\ steps = 0

NextConversion == Serve /\ convert_round_trip

SpecConversion == InitConversion /\ [][NextConversion]_vars

----------------------------------------------------------------------------
(* The three snapshot writers on a funded USD account that bought an HKD
   asset, over price caches that hold a price for some of the days *)
WriterMarkets == {MarketDown, FlatMarket({"0700.HK"}, Days, Num(60))}

InitWriters ==
  \E buy \in [day : Days, quantity : {Num(10)}, total : {Num(1000)}],
     cached \in {{}, {0}, Days} :
    /\ today = MaxDay
    /\ txs = <<[id |-> 1, date |-> <<0, 0>>, type |-> "DEPOSIT", account_id |-> 1,
                asset_id |-> NoId, quantity |-> Zero, total |-> Funding],
               [id |-> 2, date |-> <<buy.day, 1>>, type |-> "BUY", account_id |-> 1,
                asset_id |-> 1, quantity |-> buy.quantity, total |-> buy.total]>>
    /\ accounts = [a \in {1} |->
                     [currency |-> "USD", balance |-> RSub(Funding, buy.total),
                      inception_date |-> <<0, 0>>]]
    /\ assets = <<[symbol |-> "0700.HK", currency |-> "HKD"]>>
    /\ prices = CachedRows(1, cached, 50, TRUE)
    /\ snapshots = <<>>
    /\ last = [op |-> "init", status |-> 200, arg |-> [none |-> TRUE]]
    /\ replay = ReplayStart
    /\ runs = NoRuns
    /\ steps = 0

NextWriters ==
  \/ \E d \in Days, market \in WriterMarkets :
       Serve /\ steps < MaxWriterSteps /\ rebuild_snapshots_from(d, market)
  \/ \E market \in WriterMarkets :
       Serve /\ steps < MaxWriterSteps /\ backfill_history(market)
  \/ \E s \in Days, e \in Days, market \in WriterMarkets :
       Serve /\ steps < MaxWriterSteps /\ trigger_history_rebuild(s, e, market)

SpecWriters == InitWriters /\ [][NextWriters]_vars

----------------------------------------------------------------------------
(* _update_price_history called again and again on a cache that starts
   empty, with price maps over the days, one symbol of the Asset table and
   one symbol that is not in it *)
InitPriceCache ==
  /\ today = MaxDay
  /\ accounts = <<>>
  /\ assets = <<[symbol |-> "AAPL", currency |-> "USD"]>>
  /\ txs = <<>>
  /\ prices = <<>>
  /\ snapshots = <<>>
  /\ last = [op |-> "init", status |-> 200, arg |-> [none |-> TRUE]]
  /\ replay = ReplayStart
  /\ runs = NoRuns
  /\ steps = 0

NextPriceCache ==
  \E keys \in SUBSET (Days \X {"AAPL", "NOPE"}) :
    \E price_data \in [keys -> {Num(2), Num(3)}] :
      Serve /\ price_history_update(price_data)

SpecPriceCache == InitPriceCache /\ [][NextPriceCache]_vars

----------------------------------------------------------------------------
(* _update_price_history merging price maps whose prices are equal, apart by
   less than 1e-4, or apart by more, the same map twice in a row included *)
NextPriceMerge ==
  \E keys \in SUBSET (((0..(MaxDay - 1)) \X {"AAPL"}) \cup {<<0, "NOPE">>}) :
    \E price_data \in [keys -> {Num(2), <<40001, 20000>>, Num(3)}] :
      Serve /\ price_history_merge(price_data)

SpecPriceMerge == InitPriceCache /\ [][NextPriceMerge]_vars

----------------------------------------------------------------------------
(* Transactions entered and edited across a USD account and an HKD account,
   both created with no opening balance *)
InitTwoAccounts ==
  /\ today = 0
  /\ accounts = <<[currency |-> "USD", balance |-> Zero, inception_date |-> <<0, 0>>],
                  [currency |-> "HKD", balance |-> Zero, inception_date |-> <<0, 0>>]>>
  /\ assets = <<>>
  /\ txs = <<>>
  /\ prices = <<>>
  /\ snapshots = <<>>
  /\ last = [op |-> "init", status |-> 200, arg |-> [none |-> TRUE]]
  /\ replay = ReplayStart
  /\ runs = NoRuns
  /\ steps = 0

NextTwoAccounts ==
  \/ \E a \in {1, 2}, t \in {"DEPOSIT", "WITHDRAW"}, c \in {NoStr, "USD", "HKD"},
        n \in {78, 100} :
       Serve /\ create_transaction(
                  [date |-> <<0, 1>>, type |-> t, account_id |-> a, asset_id |-> NoId,
                   symbol |-> NoStr, currency |-> c, quantity |-> Zero,
                   total |-> Num(n)])
  \/ \E id \in 1..MaxTx, a \in {1, 2}, fields \in {{"account_id"}, {"total"},
                                                   {"account_id", "total"},
                                                   {"total", "currency"}, {"type"}} :
       Serve /\ update_transaction(
                  id, [NoEdit EXCEPT !.set = fields, !.account_id = a,
                                     !.total = Num(78), !.currency = "USD",
                                     !.type = "DEPOSIT"])

SpecTwoAccounts == InitTwoAccounts /\ [][NextTwoAccounts]_vars

----------------------------------------------------------------------------
(* Snapshot rebuilds that run side by side, as the request handlers and the
   background task start them, on the ledger of InitWriters *)
NextRuns ==
  \/ \E r \in Runs, from_date \in Days : rebuild_delete(r, from_date)
  \/ \E r \in Runs : backfill_first_tx(r)
  \/ \E r \in Runs, market \in WriterMarkets : price_fetch(r, market)
  \/ \E r \in Runs : backfill_check(r)
  \/ \E r \in Runs : backfill_insert(r)
  \/ \E r \in Runs : run_abort(r)

SpecRuns == InitWriters /\ [][NextRuns]_vars

----------------------------------------------------------------------------
(* The replays on ledgers of purchases and sales entered in any order: two
   funded USD accounts, two assets, trades dated at midnight, within the day
   and in its last second before midnight, sales of more than is held
   included *)
TradeLegs ==
  [type : {"BUY", "SELL"}, key : {<<1, 1>>, <<1, 2>>, <<2, 1>>},
   date : {<<0, 0>>, <<0, 1>>, <<0, 2>>, <<1, 1>>}, quantity : {Num(5), Num(10)}]

InitTrades ==
  \E legs \in UNION {[1..n -> TradeLegs] : n \in 1..MaxTx} :
    /\ today = 1
    /\ txs = [i \in 1..2 |->
                [id |-> i, date |-> <<0, 0>>, type |-> "DEPOSIT", account_id |-> i,
                 asset_id |-> NoId, quantity |-> Zero, total |-> Funding]]
             \o [i \in 1..Len(legs) |->
                   [id |-> i + 2, date |-> legs[i].date, type |-> legs[i].type,
                    account_id |-> legs[i].key[1], asset_id |-> legs[i].key[2],
                    quantity |-> legs[i].quantity, total |-> Num(1000)]]
    /\ accounts = [a \in {1, 2} |->
                     [currency |-> "USD",
                      balance |-> SumSeq([i \in 1..Len(txs) |->
                                            IF txs[i].account_id = a
                                              THEN CashEffect(txs[i].type, txs[i].total)
                                              ELSE Zero]),
                      inception_date |-> <<0, 0>>]]
    /\ assets = <<[symbol |-> "AAPL", currency |-> "USD"],
                  [symbol |-> "0700.HK", currency |-> "HKD"]>>
    /\ prices = <<>>
    /\ snapshots = <<>>
    /\ last = [op |-> "init", status |-> 200, arg |-> [none |-> TRUE]]
    /\ replay = ReplayStart
    /\ runs = NoRuns
    /\ steps = 0

NextTrades ==
  \/ Serve /\ steps < MaxWriterSteps /\ calculate_holdings_step
  \/ \E d \in 0..1 : Serve /\ steps < MaxWriterSteps /\ holdings_at_date(d)
  \/ \E d \in 0..1 : Serve /\ steps < MaxWriterSteps /\ cash_balances_at_date(d)
  \/ \E s \in 0..1 :
       Serve /\ steps < MaxWriterSteps
             /\ trigger_history_rebuild(s, 1, FlatMarket({"AAPL", "0700.HK"}, Days, Num(60)))

SpecTrades == InitTrades /\ [][NextTrades]_vars

----------------------------------------------------------------------------
(* record_daily_snapshot called side by side, by the scheduler job and by
   GET /portfolio/summary, each in a session of its own, on the ledger of
   InitWriters *)
NextDaily ==
  \/ \E r \in Runs : snapshot_check(r)
  \/ \E r \in Runs, tod \in {0, 1, 2} : snapshot_save(r, tod)

SpecDaily == InitWriters /\ [][NextDaily]_vars
----------------------------------------------------------------------------
(* Properties *)

(* the day the last operation rebuilt the snapshots from (rebuild_snapshots_from
   itself, or a handler that ends by calling it), MaxDay + 1 when it did not *)
RebuiltFrom ==
  IF last.op = "rebuild_snapshots_from" THEN last.arg.from_date
  ELSE IF last.op \in {"create_account", "delete_account"} /\ last.status = 200
    THEN last.arg.affected
  ELSE MaxDay + 1

(* C1: after rebuild_snapshots_from(d) with d <= today, every day of
   [d, today] has exactly one snapshot, whatever the table held before
   (gaps, several snapshots on one day) *)
C1_OneSnapshotPerDayAfterRebuild ==
  \A d \in Days :
    (RebuiltFrom <= d /\ d <= today) => Cardinality(SnapshotsOn(snapshots, d)) = 1

(* a rebuild that has deleted more snapshots than its range has days: some day
   held several *)
C1_RebuildOverDuplicates ==
  /\ last.op = "rebuild_snapshots_from"
  /\ last.arg.from_date <= today
  /\ last.arg.deleted > today - last.arg.from_date + 1
  /\ Len(snapshots) >= today - last.arg.from_date + 1

(* C2: a backfill_history that directly follows a backfill_history, the
   ledger unchanged in between, creates, deletes and modifies no snapshot *)
C2_BackfillTwiceChangesNothing ==
  [][(last.op = "backfill_history" /\ last'.op = "backfill_history")
       => snapshots' = snapshots]_vars

(* a second backfill_history in a row, over a range of two days and more *)
C2_SecondBackfill ==
  /\ last.op = "backfill_history"
  /\ last.arg.again
  /\ today >= 1
  /\ Len(snapshots) >= 2

(* C3: whatever sequence of record_daily_snapshot, backfill_history,
   rebuild_snapshots_from and rebuild_portfolio_history has run, no day has
   more than one snapshot *)
C3_AtMostOneSnapshotPerDay ==
  \A d \in Days : Cardinality(SnapshotsOn(snapshots, d)) <= 1

(* C4: after create_account, delete_account, create_transaction or
   update_transaction has succeeded, every snapshot dated on or after the
   earliest affected day holds the values of the ledger as it now is *)
C4_MutationRefreshesSnapshots ==
  (/\ last.op \in {"create_account", "delete_account",
                   "create_transaction", "update_transaction"}
   /\ last.status = 200)
  => \A i \in 1..Len(snapshots) :
       (last.arg.affected <= DayOf(snapshots[i].date) /\ DayOf(snapshots[i].date) <= today)
       => /\ snapshots[i].total_cash =
               calculate_portfolio_value_at_date(DayOf(snapshots[i].date)).total_cash
          /\ snapshots[i].total_equity =
               calculate_portfolio_value_at_date(DayOf(snapshots[i].date)).total_equity

(* the sign a transaction type gives its total in the cash of its account *)
ClaimCashSign(type) ==
  IF type \in {"DEPOSIT", "SELL", "INTEREST", "DIVIDEND"} THEN 1 ELSE -1

(* the signed sum of the totals of the transactions dated on or before day d *)
ClaimCashAt(d) ==
  Val({SumSeq([i \in 1..Len(ts) |->
                 IF ClaimCashSign(ts[i].type) = 1 THEN ts[i].total ELSE RNeg(ts[i].total)])
       : ts \in {SelectSeq(txs, LAMBDA t : DayOf(t.date) <= d)}})

(* the quantity of asset a bought less the quantity sold, up to day d *)
ClaimQuantityAt(a, d) ==
  Val({SumSeq([i \in 1..Len(ts) |->
                 IF ts[i].type = "BUY" THEN ts[i].quantity ELSE RNeg(ts[i].quantity)])
       : ts \in {SelectSeq(txs, LAMBDA t :
                   t.type \in {"BUY", "SELL"} /\ t.asset_id = a /\ DayOf(t.date) <= d)}})

(* quantity times price over the assets held on day d that have a price for
   that day in the price map *)
ClaimHoldingsValue(d, price_map) ==
  Val({SumFn([a \in held |->
                RMul(ClaimQuantityAt(a, d), price_map[<<d, assets[a].symbol>>])], held)
       : held \in {{a \in 1..Len(assets) :
                      /\ RLt(Zero, ClaimQuantityAt(a, d))
                      /\ <<d, assets[a].symbol>> \in DOMAIN price_map}}})

(* C5: after rebuild_portfolio_history over [start_date, end_date] on the
   ledger of one USD account, the snapshot of each day d of the range has
   total_cash = the signed sum of the totals of all transactions dated on or
   before d, and total_equity = total_cash + the sum of quantity times price
   over the holdings priced in the fetched price map *)
C5_RebuiltCashAndEquity ==
  last.op = "rebuild_portfolio_history"
  => \A i \in 1..Len(snapshots) :
       (/\ snapshots[i].date = Midnight(DayOf(snapshots[i].date))
        /\ last.arg.start_date <= DayOf(snapshots[i].date)
        /\ DayOf(snapshots[i].date) <= last.arg.end_date)
       => /\ snapshots[i].total_cash = ClaimCashAt(DayOf(snapshots[i].date))
          /\ snapshots[i].total_equity =
               RAdd(snapshots[i].total_cash,
                    ClaimHoldingsValue(DayOf(snapshots[i].date), last.arg.price_map))

(* C6: calculate_cash_balances_at_date adds DEPOSIT, SELL, INTEREST and
   DIVIDEND totals and subtracts WITHDRAW, BUY and FEE totals: no transaction
   type is left without a cash effect *)
C6_EveryTypeMovesCash ==
  last.op = "calculate_cash_balances_at_date"
  => last.arg.result = ClaimCashAt(last.arg.target_date)

(* C7: when calculate_holdings replays a SELL of q from a position of
   quantity Q > 0 and cost C, the position becomes quantity Q - q and cost
   C - q * (C / Q), so that its average cost C / Q is unchanged *)
C7_SellKeepsAverageCost ==
  [][replay'.k = replay.k + 1 =>
       LET t == HoldingTxs(NoDate)[replay.k + 1]
           i == KeyIndex(replay.holdings, t.account_id, t.asset_id)
       IN (t.type = "SELL" /\ i # 0 /\ RLt(Zero, replay.holdings[i].quantity))
          => /\ replay'.holdings[i].quantity =
                  RSub(replay.holdings[i].quantity, t.quantity)
             /\ replay'.holdings[i].total_cost =
                  RSub(replay.holdings[i].total_cost,
                       RMul(t.quantity, RDiv(replay.holdings[i].total_cost,
                                             replay.holdings[i].quantity)))
             /\ RMul(replay'.holdings[i].total_cost, replay.holdings[i].quantity) =
                  RMul(replay.holdings[i].total_cost, replay'.holdings[i].quantity)]_vars

(* BUY 10 for 1500, BUY 5 for 1000, SELL 3: quantity 12, cost 2000, that is
   the average cost 2500 / 15 *)
C7_SoldThreeOfFifteen ==
  /\ replay.k = 3
  /\ HoldingTxs(NoDate)[3].type = "SELL"
  /\ Len(replay.holdings) = 1
  /\ replay.holdings[1].quantity = Num(12)
  /\ replay.holdings[1].total_cost = Num(2000)
  /\ RDiv(replay.holdings[1].total_cost, replay.holdings[1].quantity) = Rat(2500, 15)

(* C8: create_transaction of a WITHDRAW or BUY on an existing account is
   rejected with 400 when its amount, converted to the account currency,
   exceeds the balance, and then adds no transaction and leaves the balance as
   it was; otherwise it is accepted and the balance goes down by the amount *)
C8_FundsCheckOnCreate ==
  [][(/\ last'.op = "create_transaction"
      /\ last'.arg.payload.account_id \in DOMAIN accounts
      /\ last'.arg.payload.type \in {"WITHDRAW", "BUY"})
     => LET p == last'.arg.payload
            balance == accounts[p.account_id].balance
            amount == AmountInAccountCurrency(p.total, p.currency,
                                              accounts[p.account_id].currency)
        IN IF RLt(balance, amount)
             THEN /\ last'.status = 400
                  /\ txs' = txs
                  /\ accounts' = accounts
             ELSE /\ last'.status = 200
                  /\ Len(txs') = Len(txs) + 1
                  /\ accounts'[p.account_id].balance = RSub(balance, amount)]_vars

(* a BUY in another currency than the account's, rejected for lack of funds *)
C8_RejectedBuy ==
  /\ last.op = "create_transaction"
  /\ last.status = 400
  /\ last.arg.payload.type = "BUY"
  /\ last.arg.payload.currency # NoStr
  /\ last.arg.payload.currency # accounts[last.arg.payload.account_id].currency

(* +total for DEPOSIT and SELL, -total for WITHDRAW and BUY *)
ClaimBalanceEffect(type, total) ==
  IF type \in {"DEPOSIT", "SELL"} THEN total ELSE RNeg(total)

(* C9, as stated: an edit whose resulting WITHDRAW or BUY exceeds the funds
   available is rejected, so that no sequence of creations and edits takes an
   account balance below zero *)
C9_BalanceNeverNegative ==
  \A a \in DOMAIN accounts : RLe(Zero, accounts[a].balance)

(* the account an edit moves the transaction to *)
EditTarget(tx, payload) ==
  IF "account_id" \in payload.set THEN payload.account_id ELSE tx.account_id

(* C9, amended: update_transaction makes no funds check. An edit of an
   existing transaction whose accounts exist is accepted, also when its
   resulting WITHDRAW or BUY exceeds the funds available once the old effect
   is reverted, and the balance then ends below zero, exactly when the amount
   exceeds those funds. create_transaction alone never takes a balance that
   is not negative below zero *)
C9_EditHasNoFundsCheck ==
  [][/\ (/\ last'.op = "update_transaction"
         /\ last'.arg.tx_id \in TxIds)
        => LET i == TxIndex(last'.arg.tx_id)
               a == EditTarget(txs[i], last'.arg.payload)
           IN (txs[i].account_id \in DOMAIN accounts /\ a \in DOMAIN accounts)
              => /\ last'.status = 200
                 /\ (/\ a = txs[i].account_id
                     /\ txs[i].type \in {"DEPOSIT", "WITHDRAW", "BUY", "SELL"}
                     /\ txs'[i].type \in {"WITHDRAW", "BUY"})
                    => (RLt(accounts'[a].balance, Zero)
                          <=> RLt(RSub(accounts[a].balance,
                                       ClaimBalanceEffect(txs[i].type, txs[i].total)),
                                  txs'[i].total))
     /\ last'.op = "create_transaction"
        => \A a \in DOMAIN accounts :
             RLe(Zero, accounts[a].balance) => RLe(Zero, accounts'[a].balance)]_vars

(* an accepted edit to a WITHDRAW or BUY that left the balance below zero *)
C9_OverdrawnByEdit ==
  /\ last.op = "update_transaction"
  /\ last.status = 200
  /\ txs[TxIndex(last.arg.tx_id)].type \in {"WITHDRAW", "BUY"}
  /\ RLt(accounts[txs[TxIndex(last.arg.tx_id)].account_id].balance, Zero)

(* C10: an accepted update_transaction leaves
   balance_after = balance_before - effect(old type, old total)
                                  + effect(new type, new total),
   the old effect taken off the old account and the new one put on the new
   account when the edit moves the transaction *)
C10_EditRevertsThenApplies ==
  [][(/\ last'.op = "update_transaction"
      /\ last'.status = 200)
     => LET i == TxIndex(last'.arg.tx_id)
            old == txs[i]
            new == txs'[i]
        IN (/\ old.type \in {"DEPOSIT", "WITHDRAW", "BUY", "SELL"}
            /\ new.type \in {"DEPOSIT", "WITHDRAW", "BUY", "SELL"})
           => IF old.account_id = new.account_id
                THEN accounts'[new.account_id].balance =
                       RAdd(RSub(accounts[old.account_id].balance,
                                 ClaimBalanceEffect(old.type, old.total)),
                            ClaimBalanceEffect(new.type, new.total))
                ELSE /\ accounts'[old.account_id].balance =
                          RSub(accounts[old.account_id].balance,
                               ClaimBalanceEffect(old.type, old.total))
                     /\ accounts'[new.account_id].balance =
                          RAdd(accounts[new.account_id].balance,
                               ClaimBalanceEffect(new.type, new.total))]_vars

(* an accepted edit that changed both the type and the total *)
C10_TypeAndTotalEdited ==
  /\ last.op = "update_transaction"
  /\ last.status = 200
  /\ last.arg.old.type # txs[TxIndex(last.arg.tx_id)].type
  /\ last.arg.old.total # txs[TxIndex(last.arg.tx_id)].total


(* C11: the cached balance of every account equals the balance that the
   rule of calculate_cash_balances_at_date replays from the transactions of
   that account, for every cutoff day on or after its latest transaction *)
C11_CachedBalanceIsReplay ==
  \A a \in DOMAIN accounts :
    \A d \in Days :
      (\A i \in 1..Len(txs) : txs[i].account_id = a => DayOf(txs[i].date) <= d)
      => accounts[a].balance = AccountBalanceAt(a, d)

(* two transactions, the last operation an accepted edit of the type of one
   of them, and a positive balance equal to the replayed one *)
C11_ReplayedAfterEdit ==
  /\ last.op = "update_transaction"
  /\ last.status = 200
  /\ Len(txs) = 2
  /\ last.arg.old.type # txs[TxIndex(last.arg.tx_id)].type
  /\ RLt(Zero, accounts[1].balance)
  /\ accounts[1].balance = AccountBalanceAt(1, 0)

(* C12: record_daily_snapshot adds one snapshot dated today when no snapshot
   dated today exists and changes nothing when one does, so that after the
   call today has exactly one snapshot *)
C12_RecordCreatesIffAbsent ==
  [][last'.op = "record_daily_snapshot"
     => /\ IF SnapshotsOn(snapshots, today) = {}
             THEN /\ Len(snapshots') = Len(snapshots) + 1
                  /\ SubSeq(snapshots', 1, Len(snapshots)) = snapshots
                  /\ DayOf(snapshots'[Len(snapshots')].date) = today
             ELSE snapshots' = snapshots
        /\ Cardinality(SnapshotsOn(snapshots', today)) = 1]_vars

(* the cached rows of asset a dated on or before day d *)
ClaimCachedUpTo(a, d) ==
  {i \in 1..Len(prices) : prices[i].asset_id = a /\ prices[i].day <= d}

(* the purchases of asset a dated on or before day d *)
ClaimBuysUpTo(a, d) ==
  SelectSeq(txs, LAMBDA t : t.type = "BUY" /\ t.asset_id = a /\ DayOf(t.date) <= d)

(* total paid over quantity bought, for a position that was only bought *)
ClaimAverageCost(a, d) ==
  Val({RDiv(SumSeq([i \in 1..Len(ts) |-> ts[i].total]),
            SumSeq([i \in 1..Len(ts) |-> ts[i].quantity]))
       : ts \in {ClaimBuysUpTo(a, d)}})

(* the price of the latest cached day on or before d, or else the average cost *)
ClaimPriceAt(a, d) ==
  IF ClaimCachedUpTo(a, d) = {} THEN ClaimAverageCost(a, d)
  ELSE prices[CHOOSE i \in ClaimCachedUpTo(a, d) :
                \A j \in ClaimCachedUpTo(a, d) : prices[j].day <= prices[i].day].price

(* C13: calculate_holdings with at_date = d returns a row for every holding
   open on d, priced at the PriceHistory price of the latest cached day on or
   before d for its asset, or at the average cost of the position when the
   asset has no cached day on or before d; a price dated after d is never used *)
C13_AtDatePriceFallback ==
  last.op = "calculate_holdings"
  => /\ {last.arg.result[k].asset_id : k \in 1..Len(last.arg.result)} =
          {a \in 1..Len(assets) : ClaimBuysUpTo(a, last.arg.at_date) # <<>>}
     /\ \A k \in 1..Len(last.arg.result) :
          /\ last.arg.result[k].current_price =
               Round2(ClaimPriceAt(last.arg.result[k].asset_id, last.arg.at_date))
          /\ last.arg.result[k].market_value =
               Round2(RMul(last.arg.result[k].quantity,
                           ClaimPriceAt(last.arg.result[k].asset_id, last.arg.at_date)))

(* a valuation at day 1 with prices cached for day 0 and day 2 only: the
   day-0 price is used *)
C13_EarlierDayUsed ==
  /\ last.op = "calculate_holdings"
  /\ last.arg.at_date = 1
  /\ {prices[i].day : i \in {j \in 1..Len(prices) : prices[j].asset_id = 1}} = {0, 2}
  /\ Len(last.arg.result) >= 1
  /\ last.arg.result[1].current_price = Num(100)

(* from_date..today is a range of at least one day and the cache holds a
   price for every symbol on every day of it *)
ClaimCacheCovers(from_date) ==
  /\ from_date <= today
  /\ \A d \in from_date..today : \A sym \in AssetSymbols :
    \E i \in 1..Len(prices) :
      /\ prices[i].day = d
      /\ prices[i].asset_id \in 1..Len(assets)
      /\ assets[prices[i].asset_id].symbol = sym

(* C14: when PriceHistory holds a price for every symbol on every day of the
   range from_date..today (from_date on or before today), the
   get_price_history_batch call of rebuild_snapshots_from, given the cached
   rows as existing_data, makes no download call and the cache is left as it
   was *)
C14_FullCacheNoDownload ==
  [][(last'.op = "rebuild_snapshots_from" /\ ClaimCacheCovers(last'.arg.from_date))
     => (last'.arg.downloads = 0 /\ prices' = prices)]_vars

(* a rebuild over two days of one symbol, both cached: no download *)
C14_SecondFetchSkipped ==
  /\ last.op = "rebuild_snapshots_from"
  /\ last.arg.from_date < today
  /\ AssetSymbols # {}
  /\ ClaimCacheCovers(last.arg.from_date)
  /\ last.arg.downloads = 0

(* C15: no call of get_price_history_batch, get_asset_price or
   validate_symbol_exists raises; get_price_history_batch returns the empty
   map when the download throws, get_asset_price returns 0.0 and
   validate_symbol_exists returns valid = false when the provider has no
   data for the symbol or throws *)
C15_MarketDataNeverRaises ==
  /\ last.op \in {"get_price_history_batch", "get_asset_price", "validate_symbol_exists"}
       => ~last.arg.outcome.raised
  /\ (last.op = "get_price_history_batch" /\ ~last.arg.market.ok)
       => last.arg.outcome = Return(<<>>)
  /\ (last.op = "get_asset_price"
        /\ last.arg.ticker.fast_info # "price"
        /\ last.arg.ticker.history # "rows")
       => last.arg.outcome = Return(Zero)
  /\ (last.op = "validate_symbol_exists" /\ last.arg.ticker.history # "rows")
       => (~last.arg.outcome.raised /\ ~last.arg.outcome.value.valid)

(* a validation during which every provider call threw *)
C15_ProviderThrewOnValidate ==
  /\ last.op = "validate_symbol_exists"
  /\ last.arg.symbol = "AAPL"
  /\ last.arg.ticker.history = "raise"
  /\ last.arg.ticker.fast_info = "raise"
  /\ last.arg.outcome = Return([valid |-> FALSE, symbol |-> "AAPL"])

(* the USD value of the holdings open on day d, each at the latest cached
   price on or before d or else at its average cost *)
ClaimValueAt(d) ==
  Val({SumFn([a \in held |->
                Round2(_convert_to_usd(RMul(ClaimQuantityAt(a, d), ClaimPriceAt(a, d)),
                                       assets[a].currency))], held)
       : held \in {{a \in 1..Len(assets) : RLt(Zero, ClaimQuantityAt(a, d))}}})

(* C16: a rebuild_snapshots_from(from_date) during which the provider throws
   completes, leaves the price cache as it was and leaves exactly one snapshot
   for each day of from_date..today, whose equity exceeds its cash by the
   value of the open holdings at the latest cached price on or before that
   day or else at average cost *)
C16_RebuildSurvivesProviderFailure ==
  [][(last'.op = "rebuild_snapshots_from" /\ ~last'.arg.provider_ok)
     => /\ prices' = prices
        /\ \A d \in last'.arg.from_date..today :
             /\ Cardinality(SnapshotsOn(snapshots', d)) = 1
             /\ \A i \in SnapshotsOn(snapshots', d) :
                  snapshots'[i].total_equity =
                    RAdd(snapshots'[i].total_cash, ClaimValueAt(d))]_vars

(* a rebuild over two days that called the provider, which threw, with a
   holding open and no cached price: the holding is valued at average cost *)
C16_ValuedAtCostWhenProviderDown ==
  /\ last.op = "rebuild_snapshots_from"
  /\ ~last.arg.provider_ok
  /\ last.arg.downloads = 1
  /\ last.arg.from_date < today
  /\ prices = <<>>
  /\ \A d \in last.arg.from_date..today :
       \E i \in SnapshotsOn(snapshots, d) :
         RLt(snapshots[i].total_cash, snapshots[i].total_equity)

(* C17 as stated: _convert_currency(_convert_currency(x, A, B), B, A) = x for
   every amount x and every pair of currencies A, B *)
C17_RoundTripExact ==
  last.op = "_convert_currency" => last.arg.back = last.arg.amount

(* |a - b| *)
ClaimDistance(a, b) == IF RLt(a, b) THEN RSub(b, a) ELSE RSub(a, b)

(* C17: converting with A = B returns x unchanged; converting from A to B and
   back returns x exactly when both rates are 1.0, and otherwise returns x to
   within the rounding of the four float operations, a relative error of at
   most 8 / 2^FloatBits *)
C17_RoundTripWithinRounding ==
  last.op = "_convert_currency"
  => /\ last.arg.from_curr = last.arg.to_curr
          => (last.arg.there = last.arg.amount /\ last.arg.back = last.arg.amount)
     /\ (TxRate(last.arg.from_curr) = Num(1) /\ TxRate(last.arg.to_curr) = Num(1))
          => last.arg.back = last.arg.amount
     /\ RLe(ClaimDistance(last.arg.back, last.arg.amount),
            RMul(last.arg.amount, <<8, Pow2(FloatBits)>>))

(* a round trip between two currencies of the rate table that does not
   return the amount it started from *)
C17_RoundTripDrifted ==
  /\ last.op = "_convert_currency"
  /\ last.arg.from_curr = "HKD"
  /\ last.arg.to_curr = "MOP"
  /\ last.arg.back # last.arg.amount

(* the USD value of the holdings open on day d at the prices that
   rebuild_portfolio_history fetched for that day *)
ClaimFetchedValueAt(d, price_map) ==
  Val({SumFn([a \in held |->
                _convert_to_usd(RMul(ClaimQuantityAt(a, d),
                                     PriceMapGet(price_map, d, assets[a].symbol)),
                                assets[a].currency)], held)
       : held \in {{a \in 1..Len(assets) : RLt(Zero, ClaimQuantityAt(a, d))}}})

(* C18: every snapshot that _backfill_range writes, in backfill_history and in
   rebuild_snapshots_from, and every snapshot that rebuild_portfolio_history
   writes has total_equity = total_cash + the sum of the market values, in
   USD, of the holdings open on its day *)
C18_EquityIsCashPlusHoldingsUsd ==
  /\ last.op \in {"rebuild_snapshots_from", "backfill_history"}
       => \A i \in 1..Len(snapshots) :
            (\/ last.op = "backfill_history" /\ i > Len(snapshots) - last.arg.created
             \/ last.op = "rebuild_snapshots_from"
                  /\ DayOf(snapshots[i].date) >= last.arg.from_date)
            => snapshots[i].total_equity =
                 RAdd(snapshots[i].total_cash, ClaimValueAt(DayOf(snapshots[i].date)))
  /\ last.op = "rebuild_portfolio_history"
       => \A i \in 1..Len(snapshots) :
            (/\ snapshots[i].date = Midnight(DayOf(snapshots[i].date))
             /\ last.arg.start_date <= DayOf(snapshots[i].date)
             /\ DayOf(snapshots[i].date) <= last.arg.end_date)
            => snapshots[i].total_equity =
                 RAdd(snapshots[i].total_cash,
                      ClaimFetchedValueAt(DayOf(snapshots[i].date), last.arg.price_map))

(* the USD cash, on day d, of the accounts other than account_id *)
ClaimOtherCashAt(account_id, d) ==
  Val({SumFn([a \in others |->
                _convert_to_usd(AccountBalanceAt(a, d), accounts[a].currency)], others)
       : others \in {DOMAIN accounts \ {account_id}}})

(* C19: after create_account with a balance b > 0, a currency c and an
   inception on a day d on or before today, the account has a DEPOSIT of b
   dated at the inception, and day d and every later day up to today has
   exactly one snapshot, recomputed with the deposit: its total_cash is
   b / rate(c) USD plus the cash of the other accounts on that day; no
   snapshot dated on or after d is left with another total_cash *)
C19_BackdatedAccountRewritesSnapshots ==
  (/\ last.op = "create_account"
   /\ RLt(Zero, accounts[last.arg.account_id].balance)
   /\ last.arg.affected <= today)
  => /\ \E i \in 1..Len(txs) :
          /\ txs[i].type = "DEPOSIT"
          /\ txs[i].account_id = last.arg.account_id
          /\ txs[i].total = accounts[last.arg.account_id].balance
          /\ txs[i].date = accounts[last.arg.account_id].inception_date
          /\ DayOf(txs[i].date) = last.arg.affected
     /\ \A d \in last.arg.affected..today :
          Cardinality(SnapshotsOn(snapshots, d)) = 1
     /\ \A i \in 1..Len(snapshots) :
          DayOf(snapshots[i].date) >= last.arg.affected
          => snapshots[i].total_cash =
               RAdd(RDiv(accounts[last.arg.account_id].balance,
                         PfRate(accounts[last.arg.account_id].currency)),
                    ClaimOtherCashAt(last.arg.account_id, DayOf(snapshots[i].date)))

(* an HKD account created with a balance and an inception before today,
   over snapshots of the inception day and later that were deleted *)
C19_StaleSnapshotsReplaced ==
  /\ last.op = "create_account"
  /\ accounts[last.arg.account_id].currency = "HKD"
  /\ RLt(Zero, accounts[last.arg.account_id].balance)
  /\ last.arg.affected < today
  /\ last.arg.deleted >= 2
  /\ Len(snapshots) >= 2

(* C20: whatever _update_price_history calls were made on a cache that
   started empty, PriceHistory holds at most one row for an asset and a
   calendar day *)
C20_OneRowPerAssetAndDay ==
  \A i \in 1..Len(prices) : \A j \in 1..Len(prices) :
    (prices[i].asset_id = prices[j].asset_id /\ prices[i].day = prices[j].day)
    => i = j

(* a call that met rows already cached for two of its days *)
C20_UpdatedOverExistingRows ==
  /\ last.op = "_update_price_history"
  /\ last.arg.existing >= 2
  /\ Len(prices) = 3

----------------------------------------------------------------------------
(* the runs of rebuild_snapshots_from that have completed *)
ClaimRebuildsDone ==
  {r \in Runs : runs[r].op = "rebuild_snapshots_from" /\ runs[r].pc = "done"}

(* the snapshot rebuilds of SpecRuns all ran rebuild_snapshots_from to its
   end, at least two of them, none began after another had ended, and their
   ranges overlap: every range ends today *)
ClaimConcurrentRebuildsDone ==
  /\ ClaimRebuildsDone = Runs
  /\ \A r \in Runs : runs[r].after = {}

(* C21: when two runs of rebuild_snapshots_from over overlapping ranges
   interleave at the range delete and at each day's existence check, insert
   and commit, then once both have finished every day of the covered range,
   from the earlier from_date to today, has exactly one PortfolioSnapshot. *)
C21_ConcurrentRebuildsOnePerDay ==
  ClaimConcurrentRebuildsDone =>
    \A d \in Days :
      (d <= today /\ \E r \in Runs : runs[r].from_date <= d)
        => Cardinality(SnapshotsOn(snapshots, d)) = 1

----------------------------------------------------------------------------
(* C29: in backfill_history and in rebuild_snapshots_from the price fetch and
   the PriceHistory upsert for the whole range have completed before the
   first per-day snapshot valuation of that run: every step that values a day
   and inserts its snapshot belongs to a run whose fetch is done, and the
   snapshot holds the valuation against the PriceHistory table as the step
   finds it. *)
C29_FetchBeforeFirstValuation ==
  [][\A r \in Runs :
       (runs[r].pc = "insert" /\ runs'[r].pc = "check")
         => /\ runs[r].fetched
            /\ Len(snapshots') = Len(snapshots) + 1
            /\ snapshots'[Len(snapshots')].total_equity
                 = calculate_portfolio_value_at_date(runs[r].cur).total_equity]_vars

(* a run of either kind has inserted the snapshot of the first day of its
   range after a fetch that put the provider's prices in the table *)
C29_ValuedAfterFetch ==
  \E r \in Runs :
    /\ runs[r].pc = "check"
    /\ runs[r].cur = runs[r].from_date + 1
    /\ runs[r].fetched
    /\ \E i \in 1..Len(prices) : prices[i].price = Num(60)
    /\ SnapshotsOn(snapshots, runs[r].from_date) # {}

----------------------------------------------------------------------------
(* the runs that have begun *)
ClaimBegun == {r \in Runs : runs[r].pc # "idle"}

(* no two runs overlapped in time: of any two that began, one had ended when
   the other began *)
ClaimOneAtATime ==
  \A r \in ClaimBegun :
    \A o \in ClaimBegun \ {r} : o \in runs[r].after \/ r \in runs[o].after

(* run r is the latest: every other run that began had ended when r began *)
ClaimLatest(r) == r \in ClaimBegun /\ ClaimBegun \ {r} \subseteq runs[r].after

(* C30: when a rebuild or backfill run aborts while it processes day k, the
   snapshots it inserted for the earlier days stay stored, and a subsequent
   run over the same range that completes ends with exactly one snapshot for
   every day of [from_date, today]. The runs follow one another. *)
C30_RerunAfterAbortCompletes ==
  ClaimOneAtATime =>
    \A r \in Runs :
      ClaimLatest(r) =>
        /\ runs[r].pc = "aborted"
             => \A d \in runs[r].from_date..(runs[r].cur - 1) :
                  Cardinality(SnapshotsOn(snapshots, d)) = 1
        /\ (/\ runs[r].pc = "done"
            /\ \E o \in runs[r].after :
                 runs[o].pc = "aborted" /\ runs[o].from_date = runs[r].from_date)
             => \A d \in runs[r].from_date..today :
                  Cardinality(SnapshotsOn(snapshots, d)) = 1

(* a run aborted after it had inserted a snapshot, and the next run over the
   same range has completed *)
C30_RerunCompleted ==
  /\ ClaimOneAtATime
  /\ \E r \in Runs :
       /\ ClaimLatest(r)
       /\ runs[r].pc = "done"
       /\ \E o \in runs[r].after :
            /\ runs[o].pc = "aborted"
            /\ runs[o].from_date = runs[r].from_date
            /\ runs[o].cur > runs[o].from_date
            /\ runs[o].cur <= today

----------------------------------------------------------------------------
(* C22: transactions._convert_currency and portfolio._convert_to_usd use the
   same rate for every currency of the table {USD, HKD, MOP, CNY}: an amount
   converted to USD at transaction entry and at valuation gives the same
   result, and a currency in neither table is converted at the rate 1.0. *)
C22_EntryAndValuationRatesAgree ==
  last.op = "_convert_currency" =>
    /\ last.arg.entry_usd = last.arg.valuation_usd
    /\ last.arg.from_curr \notin {"USD", "HKD", "MOP", "CNY"}
         => last.arg.valuation_usd = last.arg.amount

----------------------------------------------------------------------------
(* the positions calculate_holdings reports for day at (NoDate: the live
   view) *)
ClaimPositions(at) ==
  Val({OpenPositions(HoldingsAfter(ts, Len(ts))) : ts \in {HoldingTxs(at)}})

(* the currency a position's cost is denominated in: that of its account *)
ClaimCostCurrency(h) ==
  IF h.account_id \in DOMAIN accounts THEN accounts[h.account_id].currency ELSE "USD"

(* the cost basis of the positions of day at in USD, each converted at the
   rate of its account's currency *)
ClaimCostBasisUsd(at) ==
  Val({SumSeq([i \in 1..Len(pos) |->
                 _convert_to_usd(Round2(pos[i].total_cost), ClaimCostCurrency(pos[i]))])
       : pos \in {ClaimPositions(at)}})

(* the positions of day at valued at average cost, in USD at the rate of
   the account's currency *)
ClaimValueAtCostUsd(at) ==
  Val({SumSeq([i \in 1..Len(pos) |->
                 Round2(_convert_to_usd(
                          RMul(pos[i].quantity, RDiv(pos[i].total_cost, pos[i].quantity)),
                          ClaimCostCurrency(pos[i])))])
       : pos \in {ClaimPositions(at)}})

(* C23: the cost basis of a holding, and the average-cost price that stands
   in for a missing price, is converted to USD at the rate of the owning
   account's currency, in calculate_summary (the snapshot record_daily_snapshot
   stores) and in calculate_portfolio_value_at_date (the snapshots
   rebuild_snapshots_from stores), also when the asset trades in another
   currency than the account's. *)
C23_CostBasisAtAccountRate ==
  /\ (last.op = "record_daily_snapshot" /\ last.arg.created)
       => snapshots[Len(snapshots)].total_invested = Round2(ClaimCostBasisUsd(NoDate))
  /\ last.op = "rebuild_snapshots_from"
       => \A d \in last.arg.from_date..today :
            \A i \in SnapshotsOn(snapshots, d) :
              /\ snapshots[i].total_invested = ClaimCostBasisUsd(d)
              /\ prices = <<>>
                   => snapshots[i].total_equity
                        = RAdd(snapshots[i].total_cash, ClaimValueAtCostUsd(d))

----------------------------------------------------------------------------
(* C24: total_invested has one definition on the live path and on every path
   that writes snapshots: for a ledger with no transaction dated after
   today, calculate_summary, calculate_portfolio_value_at_date(today) and the
   snapshot rebuild_portfolio_history writes for today report the same
   total_invested, up to the rounding to 2 decimals of the summary. *)
C24_TotalInvestedOneDefinition ==
  (/\ last.op = "rebuild_portfolio_history"
   /\ last.arg.start_date <= today /\ today <= last.arg.end_date
   /\ \A i \in 1..Len(txs) : DayOf(txs[i].date) <= today)
    => \E invested \in {calculate_summary(NoLive).total_invested} :
         /\ Round2(calculate_portfolio_value_at_date(today).total_invested) = invested
         /\ \A i \in SnapshotsOn(snapshots, today) :
              Round2(snapshots[i].total_invested) = invested

----------------------------------------------------------------------------
(* the assets held on day d whose symbol has no price for d in the price map *)
ClaimUnpriced(d, price_map) ==
  {a \in 1..Len(assets) :
     /\ RLt(Zero, ClaimQuantityAt(a, d))
     /\ <<d, assets[a].symbol>> \notin DOMAIN price_map}

(* C26: in rebuild_portfolio_history a holding with positive quantity whose
   symbol has no price for day d in the fetched price map is still valued, by
   an earlier price or by its average cost, and does not contribute zero: the
   equity of the snapshot of d exceeds its cash and the value of the holdings
   that have a price. *)
C26_UnpricedHoldingStillValued ==
  last.op = "rebuild_portfolio_history" =>
    \A d \in last.arg.start_date..last.arg.end_date :
      ClaimUnpriced(d, last.arg.price_map) # {} =>
        \A i \in SnapshotsOn(snapshots, d) :
          RLt(RAdd(snapshots[i].total_cash, ClaimHoldingsValue(d, last.arg.price_map)),
              snapshots[i].total_equity)

----------------------------------------------------------------------------
(* what a stored total is worth in USD when it is read in the currency of
   the account the transaction belongs to *)
ClaimWorthUsd(tx, accts) ==
  _convert_currency(tx.total, accts[tx.account_id].currency, "USD")

(* C25: through create_transaction and update_transaction every stored
   Transaction.total is expressed in the currency of the account the
   transaction belongs to: a created total is the payload's amount converted
   from the payload's currency (the account's when none is given), and an edit
   that supplies no new total leaves every total worth what it was worth, also
   when it moves the transaction to an account with another currency. *)
C25_TotalInCurrencyOfItsAccount ==
  [][/\ (last'.op = "create_transaction" /\ last'.status \in {200, 201})
          => \A i \in 1..Len(txs') :
               txs'[i].id = last'.arg.tx_id
                 => ClaimWorthUsd(txs'[i], accounts')
                      = _convert_currency(
                          last'.arg.payload.total,
                          IF last'.arg.payload.currency = NoStr
                            THEN accounts'[txs'[i].account_id].currency
                            ELSE last'.arg.payload.currency,
                          "USD")
     /\ (/\ last'.op = "update_transaction" /\ last'.status = 200
         /\ "total" \notin last'.arg.payload.set)
          => /\ Len(txs') = Len(txs)
             /\ \A i \in 1..Len(txs) :
                  ClaimWorthUsd(txs'[i], accounts') = ClaimWorthUsd(txs[i], accounts)]_vars

----------------------------------------------------------------------------
(* the number of days of [start_date, end_date] for which existing_data holds
   a price of sym *)
ClaimCachedDays(sym, start_date, end_date, existing) ==
  Cardinality({d \in start_date..end_date : <<d, sym>> \in existing})

(* max(1, floor(0.6 x days)) for a range of the given number of days *)
ClaimThreshold(days) ==
  IF days <= 1 THEN 1
  ELSE Val({IF f > 1 THEN f ELSE 1
            : f \in {CHOOSE n \in 0..days : 5 * n <= 3 * days /\ 3 * days < 5 * (n + 1)}})

(* the symbols of a call that are marked for re-fetch *)
ClaimMarked(arg) ==
  {sym \in arg.symbols :
     ClaimCachedDays(sym, arg.start_date, arg.end_date, arg.existing)
       < ClaimThreshold(arg.end_date - arg.start_date)}

(* C27: get_price_history_batch given existing_data marks a symbol for
   re-fetch exactly when the number of its cached days inside
   [start_date, end_date] is less than max(1, floor(0.6 x the days from
   start_date to end_date)); it calls the provider at most once, with exactly
   the marked symbols, and not at all when none is marked. *)
C27_RefetchBelowSixtyPercent ==
  last.op = "get_price_history_batch"
    => /\ Len(last.arg.requests) <= 1
       /\ ClaimMarked(last.arg) = {} <=> last.arg.requests = <<>>
       /\ \A i \in 1..Len(last.arg.requests) :
            last.arg.requests[i] = ClaimMarked(last.arg)
       /\ (last.arg.requests # <<>> /\ last.arg.market.ok
           /\ last.arg.market.days = Days)
            => \A d \in Days :
                 (last.arg.start_date <= d /\ d <= last.arg.end_date)
                   => \A sym \in last.arg.symbols :
                        <<d, sym>> \in DOMAIN last.arg.outcome.value
                          <=> sym \in ClaimMarked(last.arg)

(* a call over a range of four days with a threshold of two cached days: one
   symbol has two and is skipped, the other has one and is the only one
   fetched *)
C27_OneOfTwoRefetched ==
  /\ last.op = "get_price_history_batch"
  /\ last.arg.symbols = {"AAPL", "0700.HK"}
  /\ last.arg.start_date = 0 /\ last.arg.end_date = 4
  /\ ClaimCachedDays("AAPL", 0, 4, last.arg.existing) = 2
  /\ ClaimCachedDays("0700.HK", 0, 4, last.arg.existing) = 1
  /\ last.arg.requests = <<{"0700.HK"}>>

----------------------------------------------------------------------------
(* the distance between two prices *)
ClaimApart(p, q) ==
  Val({IF RLt(diff, Zero) THEN RNeg(diff) ELSE diff : diff \in {RSub(p, q)}})

(* C28: _update_price_history overwrites an existing (asset, day) row only
   when the new price differs from the stored one by more than 1e-4, then
   with the new price, and it removes and reorders no row; merging the same
   price data a second time changes no row and adds none. *)
C28_EpsilonOverwriteIdempotent ==
  [][last'.op = "_update_price_history"
       => /\ Len(prices') >= Len(prices)
          /\ \A i \in 1..Len(prices) :
               /\ prices'[i].asset_id = prices[i].asset_id
               /\ prices'[i].day = prices[i].day
               /\ prices'[i].price # prices[i].price
                    => \E k \in DOMAIN last'.arg.price_data :
                         /\ k[1] = prices[i].day
                         /\ k[2] \in AssetSymbols
                         /\ AssetIdOf(k[2]) = prices[i].asset_id
                         /\ prices'[i].price = last'.arg.price_data[k]
                         /\ RLt(<<1, 10000>>,
                                ClaimApart(prices[i].price, last'.arg.price_data[k]))
          /\ (last.op = "_update_price_history"
              /\ last'.arg.price_data = last.arg.price_data)
               => prices' = prices]_vars

(* a merge met a stored price within 1e-4 of the new one, which stayed, and
   left the row of the other day at the new price *)
C28_NearPriceKept ==
  /\ last.op = "_update_price_history"
  /\ DOMAIN last.arg.price_data = {<<0, "AAPL">>, <<1, "AAPL">>}
  /\ last.arg.price_data[<<0, "AAPL">>] = <<40001, 20000>>
  /\ last.arg.price_data[<<1, "AAPL">>] = Num(3)
  /\ prices = <<[asset_id |-> 1, day |-> 0, price |-> Num(2)],
                [asset_id |-> 1, day |-> 1, price |-> Num(3)]>>

----------------------------------------------------------------------------
(* the place of a transaction in the ledger: its row in insertion order *)
ClaimPlace(tx) == MinOf({i \in 1..Len(txs) : txs[i].id = tx.id})

(* transaction a is applied before transaction b in a replay that goes by
   non-decreasing date and, within a calendar day, by ledger insertion order *)
ClaimReplaysBefore(a, b) ==
  \/ DayOf(a.date) < DayOf(b.date)
  \/ DayOf(a.date) = DayOf(b.date) /\ ClaimPlace(a) < ClaimPlace(b)

(* C31: the replay applies transactions in non-decreasing date order and,
   among the transactions of one calendar day, in ledger insertion order:
   each transaction a step of calculate_holdings applies comes after the one
   applied by the step before, and so does each transaction in the order
   calculate_cash_balances_at_date and rebuild_portfolio_history read. *)
C31_ReplayInDateThenInsertionOrder ==
  /\ replay.k >= 2
       => ClaimReplaysBefore(HoldingTxs(NoDate)[replay.k - 1], HoldingTxs(NoDate)[replay.k])
  /\ last.op \in {"calculate_cash_balances_at_date", "rebuild_portfolio_history"}
       => \E ts \in {OrderByDate(txs)} :
            \A i \in 1..Len(ts) : \A j \in 1..Len(ts) :
              i < j => ClaimReplaysBefore(ts[i], ts[j])

----------------------------------------------------------------------------
(* the transactions dated on or before 23:59:59 of day d *)
ClaimUpToEndOf(d) == {i \in 1..Len(txs) : DtLe(txs[i].date, <<d, 1>>)}

(* the quantity of the pair (account, asset) bought less the quantity sold
   by the transactions of the set S *)
ClaimNetQuantity(S, aid, sid) ==
  Val({SumFn([i \in T |-> IF txs[i].type = "BUY" THEN txs[i].quantity
                          ELSE RNeg(txs[i].quantity)], T)
       : T \in {{i \in S : /\ txs[i].type \in {"BUY", "SELL"}
                           /\ txs[i].account_id = aid /\ txs[i].asset_id = sid}}})

(* C32: a transaction is in the replay for the cutoff day d exactly when its
   date is on or before the end of day d, 23:59:59, and calculate_holdings
   and calculate_cash_balances_at_date apply the same cutoff: the holdings at
   d are the net quantities of exactly those purchases and sales, and the
   cash at d is the sum of the cash effects of exactly those transactions. *)
C32_SameInclusiveCutoff ==
  /\ last.op = "calculate_holdings"
       => \E S \in {ClaimUpToEndOf(last.arg.at_date)} :
            /\ \A r \in 1..Len(last.arg.result) :
                 last.arg.result[r].quantity
                   = ClaimNetQuantity(S, last.arg.result[r].account_id,
                                      last.arg.result[r].asset_id)
            /\ \A aid \in DOMAIN accounts : \A sid \in 1..Len(assets) :
                 RLt(<<1, 10000>>, ClaimNetQuantity(S, aid, sid))
                   <=> \E r \in 1..Len(last.arg.result) :
                         /\ last.arg.result[r].account_id = aid
                         /\ last.arg.result[r].asset_id = sid
  /\ last.op = "calculate_cash_balances_at_date"
       => \E S \in {ClaimUpToEndOf(last.arg.target_date)} :
            last.arg.result
              = SumFn([i \in S |->
                         _convert_to_usd(CashEffect(txs[i].type, txs[i].total),
                                         accounts[txs[i].account_id].currency)], S)

(* the holdings of day 0 with one purchase dated within day 0, which is in
   them, and one dated after 23:59:59 of day 0, which is not *)
C32_LastSecondLeftOut ==
  /\ last.op = "calculate_holdings"
  /\ last.arg.at_date = 0
  /\ Len(last.arg.result) = 1
  /\ last.arg.result[1].quantity = Num(5)
  /\ \E i \in 1..Len(txs), j \in 1..Len(txs) :
       /\ txs[i].type = "BUY" /\ txs[i].date = <<0, 1>>
       /\ txs[j].type = "BUY" /\ txs[j].date = <<0, 2>>
       /\ txs[j].account_id = txs[i].account_id /\ txs[j].asset_id = txs[i].asset_id

----------------------------------------------------------------------------
(* the position [quantity, total_cost] the holdings dict hs has for the pair
   of transaction tx, the fresh one when it has none *)
ClaimPositionOf(hs, tx) ==
  Val({IF i = 0 THEN NewHolding
       ELSE [quantity |-> hs[i].quantity, total_cost |-> hs[i].total_cost]
       : i \in {KeyIndex(hs, tx.account_id, tx.asset_id)}})

(* C33: on any ledger, sales of more than is held and sales with nothing held
   included, calculate_holdings never divides by a zero or non-positive
   quantity. A SELL against a non-positive quantity leaves the cost basis as
   it is and only takes its quantity off, below zero if need be; a SELL
   against a positive quantity takes off the cost at the average cost; and the
   output has a row, with the average cost total_cost / quantity, exactly for
   the positions whose quantity exceeds 1e-4. *)
C33_NoDivisionByNonPositiveQuantity ==
  /\ replay.k >= 1
       => \E tx \in {HoldingTxs(NoDate)[replay.k]} :
          \E before \in {ClaimPositionOf(HoldingsAfter(HoldingTxs(NoDate), replay.k - 1), tx)},
             after \in {ClaimPositionOf(replay.holdings, tx)} :
            tx.type = "SELL"
              => /\ after.quantity = RSub(before.quantity, tx.quantity)
                 /\ RLe(before.quantity, Zero) => after.total_cost = before.total_cost
                 /\ RLt(Zero, before.quantity)
                      => RMul(after.total_cost, before.quantity)
                           = RMul(before.total_cost, after.quantity)
  /\ last.op = "calculate_holdings"
       => \E hs \in {HoldingsAfter(HoldingTxs(last.arg.at_date),
                                   Len(HoldingTxs(last.arg.at_date)))} :
            /\ \A r \in 1..Len(last.arg.result) :
                 \E i \in 1..Len(hs) :
                   /\ hs[i].account_id = last.arg.result[r].account_id
                   /\ hs[i].asset_id = last.arg.result[r].asset_id
                   /\ RLt(<<1, 10000>>, hs[i].quantity)
                   /\ last.arg.result[r].avg_cost
                        = Round2(RDiv(hs[i].total_cost, hs[i].quantity))
            /\ \A i \in 1..Len(hs) :
                 RLt(<<1, 10000>>, hs[i].quantity)
                   <=> \E r \in 1..Len(last.arg.result) :
                         /\ hs[i].account_id = last.arg.result[r].account_id
                         /\ hs[i].asset_id = last.arg.result[r].asset_id

(* the replay has applied two sales to a pair with nothing held: the first
   to the fresh position, the second to the negative one it left *)
C33_SoldBelowZero ==
  /\ replay.k = 2
  /\ HoldingTxs(NoDate)[1].type = "SELL"
  /\ HoldingTxs(NoDate)[2].type = "SELL"
  /\ Len(replay.holdings) = 1
  /\ RLt(replay.holdings[1].quantity, Num(-5))
  /\ replay.holdings[1].total_cost = Zero

----------------------------------------------------------------------------
(* C34: delete_account removes the account and all of its transactions and
   then rebuilds the snapshots from the earlier of the account's inception
   day and the day of its earliest transaction: afterwards the account is
   gone, no stored transaction references it, and every snapshot dated on or
   after that day holds the cash of the other accounts only and the equity
   of the ledger without the account. *)
C34_DeletedAccountLeavesNoTrace ==
  (last.op = "delete_account" /\ last.status = 200)
    => /\ last.arg.account_id \notin DOMAIN accounts
       /\ \A i \in 1..Len(txs) : txs[i].account_id # last.arg.account_id
       /\ \A i \in 1..Len(snapshots) :
            DayOf(snapshots[i].date) >= last.arg.affected
              => /\ snapshots[i].total_cash
                      = ClaimOtherCashAt(last.arg.account_id, DayOf(snapshots[i].date))
                 /\ snapshots[i].total_equity
                      = calculate_portfolio_value_at_date(DayOf(snapshots[i].date)).total_equity

(* an account with transactions was deleted; snapshots of its inception day
   and of later days, written while it existed, were replaced *)
C34_AccountWithHistoryDeleted ==
  /\ last.op = "delete_account"
  /\ last.status = 200
  /\ last.arg.removed >= 1
  /\ last.arg.deleted >= 2
  /\ last.arg.affected < today
  /\ Len(snapshots) >= 2

(* C35: every snapshot a snapshot-creating operation leaves carries a
   holdings_count equal to the number of positions open on the snapshot's
   day.  Violated: record_daily_snapshot and _backfill_range build the
   PortfolioSnapshot without holdings_count, which stays None. *)
C35_SnapshotCountsOpenHoldings ==
  (last.op \in {"record_daily_snapshot", "backfill_history", "rebuild_portfolio_history"}
     /\ last.status = 200)
    => \A i \in 1..Len(snapshots) :
         snapshots[i].holdings_count = Len(ClaimPositions(DayOf(snapshots[i].date)))

(* the quantity account k holds of asset a at the end of day d: its own
   purchases minus its own sales *)
ClaimPairQuantityAt(k, a, d) ==
  Val({SumSeq([i \in 1..Len(ts) |->
                 IF ts[i].type = "BUY" THEN ts[i].quantity ELSE RNeg(ts[i].quantity)])
       : ts \in {SelectSeq(txs, LAMBDA t :
                   /\ t.type \in {"BUY", "SELL"} /\ t.account_id = k
                   /\ t.asset_id = a /\ DayOf(t.date) <= d)}})

(* the (account, asset) pairs with an open position at the end of day d *)
ClaimOpenPairs(d) ==
  {p \in (DOMAIN accounts) \X (1..Len(assets)) :
     RLt(Zero, ClaimPairQuantityAt(p[1], p[2], d))}

(* the open positions of day d, each one valued on its own at the price the
   price map has for the day *)
ClaimPairsValue(d, price_map) ==
  Val({SumFn([p \in open |->
                RMul(ClaimPairQuantityAt(p[1], p[2], d),
                     PriceMapGet(price_map, d, assets[p[2]].symbol))], open)
       : open \in {ClaimOpenPairs(d)}})

(* C36: a BUY or SELL changes the position of its own (account, asset) pair
   only.  In calculate_holdings every other entry of the holdings dict is
   the same before and after each transaction of the replay; in
   rebuild_portfolio_history the holdings value of each day is the value of
   the open positions, each pair taken on its own.  Violated by
   rebuild_portfolio_history, whose dict is keyed by the asset alone: the
   SELL of one account takes quantity off what another account holds. *)
C36_TradeChangesOwnPairOnly ==
  /\ \A d \in {NoDate} \cup Days :
       \E ts \in {HoldingTxs(d)} :
         \A n \in 1..Len(ts) :
           \E before \in {HoldingsAfter(ts, n - 1)}, after \in {HoldingsAfter(ts, n)} :
             \A i \in 1..Len(before) :
               (before[i].account_id # ts[n].account_id
                  \/ before[i].asset_id # ts[n].asset_id)
                 => after[i] = before[i]
  /\ last.op = "rebuild_portfolio_history"
       => \A i \in 1..Len(snapshots) :
            RSub(snapshots[i].total_equity, snapshots[i].total_cash)
              = ClaimPairsValue(DayOf(snapshots[i].date), last.arg.price_map)

(* the snapshots dated before day d, in table order *)
ClaimDatedBefore(d) == SelectSeq(snapshots, LAMBDA sn : DayOf(sn.date) < d)

(* C37: rebuild_snapshots_from(d) leaves the snapshots dated before d as
   they are, none deleted, none modified, and adds none dated before d; a
   backfill never modifies or deletes a snapshot that exists, it only adds *)
C37_RebuildFrame ==
  [][/\ last'.op = "rebuild_snapshots_from"
          => \E kept \in {ClaimDatedBefore(last'.arg.from_date)} :
               /\ Len(snapshots') >= Len(kept)
               /\ \A i \in 1..Len(kept) : snapshots'[i] = kept[i]
               /\ \A i \in (Len(kept) + 1)..Len(snapshots') :
                    DayOf(snapshots'[i].date) >= last'.arg.from_date
     /\ last'.op = "backfill_history"
          => /\ Len(snapshots') >= Len(snapshots)
             /\ \A i \in 1..Len(snapshots) : snapshots'[i] = snapshots[i]]_vars

(* a rebuild from day 1 has deleted one snapshot and has kept one dated on
   day 0 after midnight *)
C37_RebuiltWithEarlierKept ==
  /\ last.op = "rebuild_snapshots_from"
  /\ last.arg.from_date >= 1
  /\ last.arg.deleted >= 1
  /\ \E i \in 1..Len(snapshots) :
       DayOf(snapshots[i].date) < last.arg.from_date /\ snapshots[i].date[2] # 0

(* the snapshot rebuild_portfolio_history produces for day d when it starts
   at start_date <= d: the last one it appends when the range ends at d *)
ClaimRebuiltDay(start_date, d, price_map) ==
  Val({table[Len(table)]
       : table \in {rebuild_portfolio_history(start_date, d, price_map)}})

(* C38: after rebuild_portfolio_history over [start_date, end_date], the
   snapshot of each day d of the range has the total_cash, total_invested
   and total_equity a rebuild from any earlier start date gives for d with
   the same price map.  Violated: the loop over the transactions before
   start_date skips INTEREST, DIVIDEND and FEE. *)
C38_SnapshotIndependentOfStart ==
  (last.op = "rebuild_portfolio_history" /\ last.arg.start_date <= last.arg.end_date)
    => \A d \in last.arg.start_date..last.arg.end_date :
         \E sn \in {snapshots[Len(snapshots) - (last.arg.end_date - d)]} :
           \A s1 \in 0..last.arg.start_date :
             \E other \in {ClaimRebuiltDay(s1, d, last.arg.price_map)} :
               /\ sn.date = other.date
               /\ sn.total_cash = other.total_cash
               /\ sn.total_invested = other.total_invested
               /\ sn.total_equity = other.total_equity

(* C39: when the calls of record_daily_snapshot that run side by side have
   all finished, at most one snapshot is dated today.  Violated: the check
   and the insert are separate statements and PortfolioSnapshot.date has no
   unique constraint, so two calls that both check before either commits
   both insert. *)
C39_ConcurrentDailyOneSnapshot ==
  (\A r \in Runs : runs[r].op = "record_daily_snapshot" /\ runs[r].pc = "done")
    => Cardinality(SnapshotsOn(snapshots, today)) <= 1
====
